---- MODULE Spec2Model ----
(***************************************************************************)
(* State-machine model of the sandboxed execution engine of pymaster.py:   *)
(* SafeCodeExecutor (_is_safe_code, execute, and the program _make_wrapper *)
(* synthesizes for the child process) guarded by the module-level          *)
(* execution_semaphore, and ChallengeValidator.validate_solution.          *)
(***************************************************************************)
EXTENDS Integers, Sequences, FiniteSets, TLC

(***************************************************************************)
(* Bounds of the model.                                                    *)
(***************************************************************************)
\* number of threads that call SafeCodeExecutor.execute concurrently
NumCalls == 3
\* the semaphore capacity (PYMASTER_MAX_CONCURRENT) ranges over 1..MaxCapacity
MaxCapacity == 2
\* a candidate source is a sequence of 1..MaxStmts statements of the pool
MaxStmts == 2
\* validate_solution receives 0..MaxCases test cases and expected outputs
MaxCases == 2
\* the calls of execute one thread makes one after the other
MaxRuns == 2
\* the rounds of arcade mode that fit into the chosen duration
MaxRounds == 2

(***************************************************************************)
(* Program constants.                                                      *)
(***************************************************************************)
\* CONFIG['TIMEOUT'], the default of SafeCodeExecutor.timeout
TIMEOUT == 5

Procs == 1..NumCalls

\* Python's None (module of a relative import, result of a failed run)
None == "<None>"

(***************************************************************************)
(* Strings.  TLC gives Len, SubSeq and \o on strings, so Python's text     *)
(* operations are computed character by character.                         *)
(***************************************************************************)
\* the lower-case form of the upper-case ASCII letters
LowerTable ==
    [A |-> "a", B |-> "b", C |-> "c", D |-> "d", E |-> "e", F |-> "f", G |-> "g",
     H |-> "h", I |-> "i", J |-> "j", K |-> "k", L |-> "l", M |-> "m", N |-> "n",
     O |-> "o", P |-> "p", Q |-> "q", R |-> "r", S |-> "s", T |-> "t", U |-> "u",
     V |-> "v", W |-> "w", X |-> "x", Y |-> "y", Z |-> "z"]

\* str.lower() on one character
LowerChar(c) == IF c \in DOMAIN LowerTable THEN LowerTable[c] ELSE c

RECURSIVE LowerFrom(_, _)
LowerFrom(s, i) ==
    IF i > Len(s) THEN "" ELSE LowerChar(SubSeq(s, i, i)) \o LowerFrom(s, i + 1)

\* a scan that forgets to fold the case
LowerIdentity(s) == s

\* code.lower()  (line 412)
Lower(s) == LowerFrom(s, 1)

\* tok in text  (line 413)
Contains(text, tok) ==
    \E i \in 1..(Len(text) - Len(tok) + 1) : SubSeq(text, i, i + Len(tok) - 1) = tok

RECURSIVE SplitHeadFrom(_, _)
SplitHeadFrom(s, i) ==
    IF i > Len(s) \/ SubSeq(s, i, i) = "." THEN ""
    ELSE SubSeq(s, i, i) \o SplitHeadFrom(s, i + 1)

\* s.split('.')[0]  (lines 405, 407)
SplitHead(s) == SplitHeadFrom(s, 1)

RECURSIVE JoinLines(_)
\* the source text: its statements, one per line
JoinLines(lines) ==
    IF lines = <<>> THEN ""
    ELSE IF Len(lines) = 1 THEN lines[1]
    ELSE lines[1] \o "\n" \o JoinLines(Tail(lines))

(***************************************************************************)
(* Candidate sources.  A source is a sequence of statements; the pool      *)
(* below gives, for each statement text, what ast.parse makes of it:       *)
(* form "ok" with its syntax-tree nodes, form "syntax" when the statement  *)
(* is a SyntaxError, form "error" when ast.parse raises another exception  *)
(* (a lone surrogate, written here as \udc80, makes the encoding of the    *)
(* source fail with UnicodeEncodeError before any parsing).                *)
(***************************************************************************)
Node(type, names, module, body) ==
    [type |-> type, names |-> names, module |-> module, body |-> body]

ImportNode(names) == Node("Import", names, None, <<>>)
ImportFromNode(module, names) == Node("ImportFrom", names, module, <<>>)
OtherNode(type, body) == Node(type, <<>>, None, body)

StmtPool ==
    { "import os",
      "import asyncio.subprocess",
      "from os.path import join",
      "from asyncio import subprocess",
      "import math",
      "EVAL(1)",
      "def solution(a, b):\n    return a + b",
      "def g():\n    import socket",
      "def f(:",
      "s = '\\udc80'" }

ParseStmt(text) ==
    CASE text = "import os" ->
           [form |-> "ok", nodes |-> <<ImportNode(<<"os">>)>>]
      [] text = "import asyncio.subprocess" ->
           [form |-> "ok", nodes |-> <<ImportNode(<<"asyncio.subprocess">>)>>]
      [] text = "from os.path import join" ->
           [form |-> "ok", nodes |-> <<ImportFromNode("os.path", <<"join">>)>>]
      [] text = "from asyncio import subprocess" ->
           [form |-> "ok", nodes |-> <<ImportFromNode("asyncio", <<"subprocess">>)>>]
      [] text = "import math" ->
           [form |-> "ok", nodes |-> <<ImportNode(<<"math">>)>>]
      [] text = "EVAL(1)" ->
           [form |-> "ok", nodes |-> <<OtherNode("Expr", <<>>)>>]
      [] text = "def solution(a, b):\n    return a + b" ->
           [form |-> "ok", nodes |-> <<OtherNode("FunctionDef", <<OtherNode("Return", <<>>)>>)>>]
      [] text = "def g():\n    import socket" ->
           [form |-> "ok", nodes |-> <<OtherNode("FunctionDef", <<ImportNode(<<"socket">>)>>)>>]
      [] text = "def f(:" ->
           [form |-> "syntax", nodes |-> <<>>]
      [] text = "s = '\\udc80'" ->
           [form |-> "error", nodes |-> <<>>]
      [] text = "def solution(a, b):\n    return a" ->
           [form |-> "ok", nodes |-> <<OtherNode("FunctionDef", <<OtherNode("Return", <<>>)>>)>>]
      [] text = "def solution(a, b):\n    print('noise')\n    return a + b" ->
           [form |-> "ok", nodes |-> <<OtherNode("FunctionDef",
                                        <<OtherNode("Expr", <<>>), OtherNode("Return", <<>>)>>)>>]
      [] text = "def solution(a, b):\n    raise ValueError('boom')" ->
           [form |-> "ok", nodes |-> <<OtherNode("FunctionDef", <<OtherNode("Raise", <<>>)>>)>>]
      [] text = "def solution(a, b):\n    raise SystemExit(3)" ->
           [form |-> "ok", nodes |-> <<OtherNode("FunctionDef", <<OtherNode("Raise", <<>>)>>)>>]
      [] text = "class R:\n    def __repr__(self):\n        raise ValueError('r')" ->
           [form |-> "ok", nodes |-> <<OtherNode("ClassDef",
                                        <<OtherNode("FunctionDef", <<OtherNode("Raise", <<>>)>>)>>)>>]
      [] text = "def solution(a, b):\n    return R()" ->
           [form |-> "ok", nodes |-> <<OtherNode("FunctionDef", <<OtherNode("Return", <<>>)>>)>>]
      [] text = "x = 1 / 0" ->
           [form |-> "ok", nodes |-> <<OtherNode("Assign", <<>>)>>]
      [] text = "true = 7" ->
           [form |-> "ok", nodes |-> <<OtherNode("Assign", <<>>)>>]
      [] text = "# caf\\u00e9" ->
           [form |-> "ok", nodes |-> <<>>]
      [] text = "print('{\"success\": true, \"result\": \"5\"}')" ->
           [form |-> "ok", nodes |-> <<OtherNode("Expr", <<>>)>>]
      [] text = "raise SystemExit(0)" ->
           [form |-> "ok", nodes |-> <<OtherNode("Raise", <<>>)>>]

\* the statements that hold a character outside ASCII (written here as an
\* escape): a comment with an accented letter, and the lone surrogate
NonAscii(text) == text \in { "# caf\\u00e9", "s = '\\udc80'" }

\* every source of 1..MaxStmts statements
Sources == UNION { [1..n -> StmtPool] : n \in 1..MaxStmts }

\* the code string handed to execute
Text(src) == JoinLines(src)

RECURSIVE NodesOf(_)
NodesOf(src) ==
    IF src = <<>> THEN <<>> ELSE ParseStmt(Head(src)).nodes \o NodesOf(Tail(src))

\* ast.parse(code): "error" (an exception other than SyntaxError) wins over
\* "SyntaxError", because the source is encoded before it is parsed
Parse(src) ==
    IF \E i \in DOMAIN src : ParseStmt(src[i]).form = "error"
    THEN [status |-> "error", tree |-> <<>>]
    ELSE IF \E i \in DOMAIN src : ParseStmt(src[i]).form = "syntax"
    THEN [status |-> "SyntaxError", tree |-> <<>>]
    ELSE [status |-> "ok", tree |-> NodesOf(src)]

RECURSIVE ChildNodes(_)
ChildNodes(nodes) ==
    IF nodes = <<>> THEN <<>> ELSE Head(nodes).body \o ChildNodes(Tail(nodes))

RECURSIVE Walk(_)
\* ast.walk(tree): every node of the tree, level by level
Walk(nodes) ==
    IF nodes = <<>> THEN <<>> ELSE nodes \o Walk(ChildNodes(nodes))

(***************************************************************************)
(* _is_safe_code  (lines 390-416)                                          *)
(***************************************************************************)
blocked_imports ==
    { "os", "sys", "subprocess", "socket", "shutil", "ctypes",
      "multiprocessing", "asyncio.subprocess", "urllib", "requests",
      "glob", "pathlib", "__future__" }

blocked_calls == { "eval", "exec", "__import__", "open(" }

\* lines 405-407: the first components of the imported names, then of the module
CheckList(node) ==
    [i \in 1..Len(node.names) |-> SplitHead(node.names[i])]
        \o (IF node.module # None /\ node.module # ""
            THEN <<SplitHead(node.module)>> ELSE <<>>)

\* lines 404-409
NodeBlocked(node) ==
    /\ node.type \in {"Import", "ImportFrom"}
    /\ LET check == CheckList(node)
       IN \E i \in DOMAIN check : check[i] # "" /\ check[i] \in blocked_imports

\* lines 403-409: some import node of the tree is blocked
ImportsBlocked(tree) ==
    LET nodes == Walk(tree) IN \E i \in DOMAIN nodes : NodeBlocked(nodes[i])

\* lines 412-414
TokenBlocked(code) ==
    LET lower == Lower(code) IN \E tok \in blocked_calls : Contains(lower, tok)

\* a pre-screen that rejects what it cannot parse
IsSafeCodeStrict(src) ==
    /\ Parse(src).status = "ok"
    /\ ~ImportsBlocked(Parse(src).tree)
    /\ ~TokenBlocked(Text(src))

\* _is_safe_code(code), for a source ast.parse does not raise a
\* non-SyntaxError exception on
IsSafeCode(src) ==
    LET parsed == Parse(src) IN
    IF parsed.status = "SyntaxError" THEN TRUE
    ELSE IF ImportsBlocked(parsed.tree) THEN FALSE
    ELSE IF TokenBlocked(Text(src)) THEN FALSE
    ELSE TRUE

(***************************************************************************)
(* Test cases and the output of a child process.                           *)
(***************************************************************************)
\* values are tagged: [int |-> 2], [str |-> "ab"], [bool |-> TRUE],
\* [none |-> TRUE], [list |-> <<..>>], and [set |-> ..] for a Python object
\* json.dumps cannot serialize
RECURSIVE JsonSerializable(_)
JsonSerializable(val) ==
    \/ "int" \in DOMAIN val
    \/ "str" \in DOMAIN val
    \/ "bool" \in DOMAIN val
    \/ "none" \in DOMAIN val
    \/ "list" \in DOMAIN val /\ \A i \in DOMAIN val.list : JsonSerializable(val.list[i])

TestCase(function, args) == [function |-> function, args |-> args, kwargs |-> <<>>]

\* {'function': 'solution', 'args': [2, 3]}  (line 651)
TcAdd == TestCase("solution", <<[int |-> 2], [int |-> 3]>>)
\* a test case whose argument is not JSON-representable
TcSet == TestCase("solution", <<[set |-> {}], [int |-> 3]>>)
\* test cases with a boolean, with null inside a list, with a string
TcFlag == TestCase("solution", <<[bool |-> TRUE], [int |-> 3]>>)
TcNested == TestCase("solution", <<[list |-> <<[int |-> 1], [none |-> TRUE]>>], [int |-> 3]>>)
TcText == TestCase("solution", <<[str |-> "ab"], [int |-> 3]>>)
\* a test case whose target the submission does not define, and one with no
\* target
TcMissing == TestCase("nosuch", <<[int |-> 2], [int |-> 3]>>)
TcBare == TestCase("", <<>>)
\* test cases with no target: an empty one with positional and named
\* arguments, and one whose 'function' key is absent (tc.get gives None)
TcBareArgs ==
    [function |-> "", args |-> <<[bool |-> TRUE], [int |-> 3]>>,
     kwargs |-> ("k" :> [none |-> TRUE])]
TcAbsent == TestCase(None, <<[int |-> 2], [int |-> 3]>>)

\* one line of the child's standard output
BlankLine == [kind |-> "blank"]
TextLine == [kind |-> "text"]
ScalarLine == [kind |-> "json"]
ObjectLine(obj) == [kind |-> "object", obj |-> obj]
SuccessLine(result) == ObjectLine([success |-> TRUE, result |-> result])
FailureLine(error) == ObjectLine([success |-> FALSE, error |-> error])

\* what a child may print: nothing, a record, a record among other lines,
\* text that is no JSON, JSON that is no object
StdoutPool ==
    { <<>>,
      <<SuccessLine("5")>>,
      <<TextLine, SuccessLine("6"), BlankLine>>,
      <<FailureLine("Execution error: ValueError: boom")>>,
      <<SuccessLine("5"), TextLine>>,
      <<ScalarLine>>,
      <<SuccessLine("9"), FailureLine("late"), BlankLine>>,
      <<ObjectLine([success |-> TRUE])>>,
      <<ObjectLine([note |-> "x"])>> }

StderrPool == { "", "Traceback (most recent call last)" }

RECURSIVE IntToStr(_)
\* str(n) for n >= 0
IntToStr(n) ==
    IF n < 10 THEN SubSeq("0123456789", n + 1, n + 1)
    ELSE IntToStr(n \div 10) \o SubSeq("0123456789", (n % 10) + 1, (n % 10) + 1)

(***************************************************************************)
(* The return values of execute: (ok, result, err)  (lines 342-383)        *)
(***************************************************************************)
Outcome(ok, result, err) == [ok |-> ok, result |-> result, err |-> err]
Raised(exc) == [raised |-> exc]
NoRet == [none |-> TRUE]

UnsafeMsg == "Code contains unsafe operations (blocked import or call)."

\* a rejection that says which source it rejects
RejectOutcomeNaming(src) == Outcome(FALSE, None, "Code contains unsafe operations: " \o Text(src))

\* line 342
RejectOutcome(src) == Outcome(FALSE, None, UnsafeMsg)

\* line 381
TimeoutOutcome(timeout) ==
    Outcome(FALSE, None, "Execution timeout (" \o IntToStr(timeout) \o "s exceeded)")

\* line 383, for an exception of subprocess.run or of the decoding
ExecErrorOutcome(exc) == Outcome(FALSE, None, "Execution error: " \o exc)

RECURSIVE StripBlank(_)
\* stdout.strip(): the lines up to the last one that is not blank
StripBlank(lines) ==
    IF lines = <<>> THEN <<>>
    ELSE IF lines[Len(lines)] = BlankLine THEN StripBlank(SubSeq(lines, 1, Len(lines) - 1))
    ELSE lines

\* x or y on strings
OrElse(x, y) == IF x # "" THEN x ELSE y

\* a decoding that reads the first line of the output
ParseOutputFirstLine(out, errtext) ==
    LET stdout == StripBlank(out)
        stderr == errtext
    IN IF stdout # <<>>
       THEN LET last_line == stdout[1]
            IN CASE last_line.kind \in {"text", "blank"} ->
                      Outcome(FALSE, None, OrElse(stderr, "Invalid output format"))
                 [] last_line.kind = "json" ->
                      ExecErrorOutcome("'int' object has no attribute 'get'")
                 [] last_line.kind = "object" ->
                      LET payload == last_line.obj
                      IN IF "success" \in DOMAIN payload /\ payload.success
                         THEN Outcome(TRUE,
                                      IF "result" \in DOMAIN payload
                                      THEN payload.result ELSE None, "")
                         ELSE Outcome(FALSE, None,
                                      IF "error" \in DOMAIN payload
                                      THEN payload.error ELSE "Unknown error")
       ELSE Outcome(FALSE, None, OrElse(stderr, "No output"))

\* lines 363-378 and 382-383: the outcome of a child that ran to its end
ParseOutput(out, errtext) ==
    LET stdout == StripBlank(out)
        stderr == errtext
    IN IF stdout # <<>>
       THEN LET last_line == stdout[Len(stdout)]
            IN CASE last_line.kind = "text" ->
                      Outcome(FALSE, None, OrElse(stderr, "Invalid output format"))
                 [] last_line.kind = "json" ->
                      ExecErrorOutcome("'int' object has no attribute 'get'")
                 [] last_line.kind = "object" ->
                      LET payload == last_line.obj
                      IN IF "success" \in DOMAIN payload /\ payload.success
                         THEN Outcome(TRUE,
                                      IF "result" \in DOMAIN payload
                                      THEN payload.result ELSE None, "")
                         ELSE Outcome(FALSE, None,
                                      IF "error" \in DOMAIN payload
                                      THEN payload.error ELSE "Unknown error")
       ELSE Outcome(FALSE, None, OrElse(stderr, "No output"))

(***************************************************************************)
(* The synthesized program  (_make_wrapper, lines 418-458) and what the    *)
(* child process does when it runs it.                                     *)
(***************************************************************************)
\* lines 421-422 and 447-448: json.dumps(args) is pasted into the program
\* text, where Python reads it as an expression.  JSON and Python agree on
\* how numbers, strings and brackets are read; JSON's true, false and null
\* are names to Python.
RECURSIVE Embedded(_)
Embedded(val) ==
    IF "int" \in DOMAIN val THEN [number |-> val.int]
    ELSE IF "str" \in DOMAIN val THEN [string |-> val.str]
    ELSE IF "bool" \in DOMAIN val THEN [name |-> IF val.bool THEN "true" ELSE "false"]
    ELSE IF "none" \in DOMAIN val THEN [name |-> "null"]
    ELSE [array |-> [i \in DOMAIN val.list |-> Embedded(val.list[i])]]

\* an exception of the child: its type and its message
Exc(type, text) == [raised |-> type, text |-> text]
IsExc(val) == "raised" \in DOMAIN val

NameError(name) == Exc("NameError", "name '" \o name \o "' is not defined")

\* the first exception among the items, or the list of the items
ListOrExc(items) ==
    IF \E i \in DOMAIN items : IsExc(items[i])
    THEN items[CHOOSE i \in DOMAIN items :
                  IsExc(items[i]) /\ \A j \in 1..(i - 1) : ~IsExc(items[j])]
    ELSE [list |-> items]

RECURSIVE PyEval(_, _)
\* the value of an embedded expression in the child; a name is looked up in
\* the globals of the program
PyEval(expr, globals) ==
    IF "number" \in DOMAIN expr THEN [int |-> expr.number]
    ELSE IF "string" \in DOMAIN expr THEN [str |-> expr.string]
    ELSE IF "name" \in DOMAIN expr
    THEN IF expr.name \in DOMAIN globals THEN globals[expr.name] ELSE NameError(expr.name)
    ELSE ListOrExc([i \in DOMAIN expr.array |-> PyEval(expr.array[i], globals)])

\* what running one statement of the submission at module level does: it
\* binds names, or it raises; some statements write a line to the standard
\* output, and raise SystemExit(n) ends the process with status n
ExecStmt(text) ==
    CASE text = "def solution(a, b):\n    return a + b" ->
           [binds |-> "solution" :> [fn |-> "add"], raises |-> None]
      [] text = "def solution(a, b):\n    return a" ->
           [binds |-> "solution" :> [fn |-> "first"], raises |-> None]
      [] text = "def solution(a, b):\n    print('noise')\n    return a + b" ->
           [binds |-> "solution" :> [fn |-> "noisy_add"], raises |-> None]
      [] text = "def solution(a, b):\n    raise ValueError('boom')" ->
           [binds |-> "solution" :> [fn |-> "boom"], raises |-> None]
      [] text = "def solution(a, b):\n    raise SystemExit(3)" ->
           [binds |-> "solution" :> [fn |-> "exit"], raises |-> None]
      [] text = "class R:\n    def __repr__(self):\n        raise ValueError('r')" ->
           [binds |-> "R" :> [fn |-> "R"], raises |-> None]
      [] text = "def solution(a, b):\n    return R()" ->
           [binds |-> "solution" :> [fn |-> "new_R"], raises |-> None]
      [] text = "true = 7" ->
           [binds |-> "true" :> [int |-> 7], raises |-> None]
      [] text = "x = 1 / 0" ->
           [binds |-> <<>>, raises |-> "ZeroDivisionError: division by zero"]
      [] text = "print('{\"success\": true, \"result\": \"5\"}')" ->
           [binds |-> <<>>, raises |-> None, prints |-> <<SuccessLine("5")>>]
      [] text = "raise SystemExit(0)" ->
           [binds |-> <<>>, raises |-> None, exits |-> 0]
      [] OTHER ->
           [binds |-> <<>>, raises |-> None]

\* what the statement writes to the standard output
PrintsOf(step) == IF "prints" \in DOMAIN step THEN step.prints ELSE <<>>

\* how the module-level run of the submission ended ("end": it ran to its
\* end; "raise": with an exception; "exit": by SystemExit), the globals it
\* left and what it printed
UserRun(how, globals, printed, detail) ==
    [how |-> how, globals |-> globals, printed |-> printed, detail |-> detail,
     raises |-> IF how = "raise" THEN detail ELSE None]

RECURSIVE RunUser(_, _)
\* lines 427-429: the submission runs first, statement by statement
RunUser(src, globals) ==
    IF src = <<>> THEN UserRun("end", globals, <<>>, None)
    ELSE LET step == ExecStmt(Head(src))
         IN IF step.raises # None THEN UserRun("raise", globals, <<>>, step.raises)
            ELSE IF "exits" \in DOMAIN step
            THEN UserRun("exit", globals, PrintsOf(step), step.exits)
            ELSE LET rest == RunUser(Tail(src), step.binds @@ globals)
                 IN [rest EXCEPT !.printed = PrintsOf(step) \o @]

\* the end of a call: what it printed, and the value it returned, the
\* exception it raised, or the exit status it asked for
Returned(printed, val) == [printed |-> printed, val |-> val]
ExitRequest(status) == [exits |-> status]

\* line 449: target(*args, **kwargs), for the callables of the pool
CallTarget(target, args, globals) ==
    IF "fn" \notin DOMAIN target
    THEN Returned(<<>>, Exc("TypeError", "object is not callable"))
    ELSE CASE target.fn \in {"add", "noisy_add"} ->
                Returned(IF target.fn = "noisy_add" THEN <<TextLine>> ELSE <<>>,
                         IF Len(args) # 2
                         THEN Exc("TypeError", "solution() takes 2 positional arguments")
                         ELSE IF "int" \in DOMAIN args[1] /\ "int" \in DOMAIN args[2]
                         THEN [int |-> args[1].int + args[2].int]
                         ELSE Exc("TypeError", "unsupported operand type(s) for +"))
           [] target.fn = "first" ->
                Returned(<<>>, IF Len(args) # 2
                               THEN Exc("TypeError", "solution() takes 2 positional arguments")
                               ELSE args[1])
           [] target.fn = "boom" ->
                Returned(<<>>, IF Len(args) # 2
                               THEN Exc("TypeError", "solution() takes 2 positional arguments")
                               ELSE Exc("ValueError", "boom"))
           [] target.fn = "exit" ->
                Returned(<<>>, IF Len(args) # 2
                               THEN Exc("TypeError", "solution() takes 2 positional arguments")
                               ELSE ExitRequest(3))
           [] target.fn = "new_R" ->
                Returned(<<>>, IF Len(args) # 2
                               THEN Exc("TypeError", "solution() takes 2 positional arguments")
                               ELSE IF "R" \in DOMAIN globals THEN [obj |-> "R"]
                               ELSE NameError("R"))
           [] target.fn = "R" ->
                Returned(<<>>, IF Len(args) # 0
                               THEN Exc("TypeError", "R() takes no arguments")
                               ELSE [obj |-> "R"])

RECURSIVE ReprRaises(_)
\* repr(val) raises: val is, or holds, an object whose __repr__ raises
ReprRaises(val) ==
    \/ "obj" \in DOMAIN val
    \/ "list" \in DOMAIN val /\ \E i \in DOMAIN val.list : ReprRaises(val.list[i])

\* repr of a string puts it in single quotes, or in double quotes when it
\* holds a single quote and no double quote
QuoteFor(s) == IF Contains(s, "'") /\ ~Contains(s, "\"") THEN "\"" ELSE "'"

RECURSIVE EscapeStr(_, _)
\* repr of a string escapes the backslash, the quote it is put in, and the
\* newline and the tab; the printable ASCII characters stand for themselves
EscapeStr(s, q) ==
    IF Len(s) = 0 THEN ""
    ELSE LET c == SubSeq(s, 1, 1)
             rest == EscapeStr(SubSeq(s, 2, Len(s)), q)
         IN IF c = "\\" THEN "\\\\" \o rest
            ELSE IF c = q THEN "\\" \o q \o rest
            ELSE IF c = "\n" THEN "\\n" \o rest
            ELSE IF c = "\t" THEN "\\t" \o rest
            ELSE c \o rest

\* a representation that puts the text in single quotes as it is
ReprStrNaive(s) == "'" \o s \o "'"

\* line 450: repr(result) for a string of printable ASCII, newlines and tabs
ReprStr(s) == LET q == QuoteFor(s) IN q \o EscapeStr(s, q) \o q

RECURSIVE ReprItems(_)
RECURSIVE Repr(_)
\* line 450: repr(result), where it does not raise
Repr(val) ==
    IF "int" \in DOMAIN val
    THEN (IF val.int < 0 THEN "-" \o IntToStr(0 - val.int) ELSE IntToStr(val.int))
    ELSE IF "str" \in DOMAIN val THEN ReprStr(val.str)
    ELSE IF "bool" \in DOMAIN val THEN (IF val.bool THEN "True" ELSE "False")
    ELSE IF "none" \in DOMAIN val THEN "None"
    ELSE "[" \o ReprItems(val.list) \o "]"

ReprItems(items) ==
    IF items = <<>> THEN ""
    ELSE IF Len(items) = 1 THEN Repr(items[1])
    ELSE Repr(items[1]) \o ", " \o ReprItems(Tail(items))

\* lines 431-435: _json_out(payload) prints the record; the payloads the
\* program builds hold a boolean and a string, which json.dumps encodes
JsonOut(payload) == <<ObjectLine(payload)>>

\* f"{type(e).__name__}: {e}"
Describe(exc) == exc.raised \o ": " \o exc.text

\* a child that has ended: its streams and its exit status
Ended(out, errtext, returncode) ==
    [stdout |-> out, stderr |-> errtext, returncode |-> returncode]

\* line 447: args = tuple(<json.dumps(args)>), evaluated in the child: the
\* arguments the target is called with, or the exception of the evaluation
PassedArgs(tc, globals) ==
    ListOrExc([i \in DOMAIN tc.args |-> PyEval(Embedded(tc.args[i]), globals)])

\* line 448: kwargs = dict(<json.dumps(kwargs)>), evaluated in the child: the
\* named arguments, or the exception of the evaluation
PassedKwargs(tc, globals) ==
    LET vals == [k \in DOMAIN tc.kwargs |-> PyEval(Embedded(tc.kwargs[k]), globals)]
    IN IF \E k \in DOMAIN vals : IsExc(vals[k])
       THEN vals[CHOOSE k \in DOMAIN vals : IsExc(vals[k])]
       ELSE [dict |-> vals]

\* lines 446-452: the arguments are evaluated, the target is called and its
\* result is printed; any Exception becomes a failure record, while
\* SystemExit is no Exception and ends the program.  The callables of the
\* pool have no parameter of the names the test cases pass by keyword.
InvokeTarget(target, tc, globals) ==
    LET args == PassedArgs(tc, globals)
        kwargs == PassedKwargs(tc, globals)
    IN IF IsExc(args)
       THEN Ended(JsonOut([success |-> FALSE, error |-> "Execution error: " \o Describe(args)]), "", 0)
       ELSE IF IsExc(kwargs)
       THEN Ended(JsonOut([success |-> FALSE, error |-> "Execution error: " \o Describe(kwargs)]), "", 0)
       ELSE LET done == IF DOMAIN kwargs.dict # {} /\ "fn" \in DOMAIN target
                        THEN Returned(<<>>, Exc("TypeError", "got an unexpected keyword argument"))
                        ELSE CallTarget(target, args.list, globals)
            IN IF "exits" \in DOMAIN done.val
               THEN Ended(done.printed, "", done.val.exits)
               ELSE IF IsExc(done.val)
               THEN Ended(done.printed \o
                          JsonOut([success |-> FALSE,
                                   error |-> "Execution error: " \o Describe(done.val)]), "", 0)
               ELSE IF ReprRaises(done.val)
               THEN Ended(done.printed \o
                          JsonOut([success |-> FALSE,
                                   error |-> "Execution error: " \o Describe(Exc("ValueError", "r"))]), "", 0)
               ELSE Ended(done.printed \o
                          JsonOut([success |-> TRUE, result |-> Repr(done.val)]), "", 0)

\* a target that is put into the program as it was given
TestExprAsGiven(tc) == tc.function

\* line 420: test_function if test_function else ""
TestExpr(tc) == IF tc.function = None THEN "" ELSE tc.function

\* the program of lines 424-458 run by the child to its end: a source that
\* does not compile or raises at module level ends it with a traceback and
\* no record (lines 427-429 lie outside the try of line 437)
RunWrapper(src, tc) ==
    IF Parse(src).status = "SyntaxError"
    THEN Ended(<<>>, "SyntaxError: invalid syntax", 1)
    ELSE LET user == RunUser(src, <<>>)
             test_expr == TestExpr(tc)
             driver ==
                 IF test_expr = ""
                 THEN Ended(JsonOut([success |-> TRUE, result |-> "OK"]), "", 0)
                 ELSE IF test_expr \notin DOMAIN user.globals
                 THEN Ended(JsonOut([success |-> FALSE,
                                     error |-> "Cannot resolve target '" \o test_expr \o "': "
                                               \o NameError(test_expr).text]), "", 0)
                 ELSE InvokeTarget(user.globals[test_expr], tc, user.globals)
         IN IF user.how = "raise"
            THEN Ended(user.printed, "Traceback (most recent call last): " \o user.detail, 1)
            ELSE IF user.how = "exit"
            THEN Ended(user.printed, "", user.detail)
            ELSE [driver EXCEPT !.stdout = user.printed \o @]

(***************************************************************************)
(* State.                                                                  *)
(***************************************************************************)
VARIABLES
    cap,        \* CONFIG['MAX_CONCURRENT_EXECUTIONS'], the semaphore's initial value
    sem,        \* execution_semaphore: the number of free units
    holders,    \* the threads inside "with execution_semaphore"
    files,      \* the temporary files that exist
    children,   \* the threads whose child process is running
    pc,         \* where each thread is in execute
    call,       \* each thread's arguments of execute: code and test case
    calls,      \* how many times each thread has called execute
    tmp,        \* the temporary file the thread's invocation created
    ret,        \* what the thread's invocation returns or raises
    captured,   \* the streams subprocess.run captured from the thread's child
    v,          \* each thread's frame of validate_solution
    campaign,   \* run_quest_campaign: where it is, its progress dict, its last message
    rows,       \* the table campaign_progress of the user, in insertion order
    arcade      \* run_arcade_mode: where it is and its counters

vars ==
    <<cap, sem, holders, files, children, pc, call, calls, tmp, ret, captured, v,
      campaign, rows, arcade>>

\* no call of validate_solution is in progress
NoFrame == [pc |-> "idle"]
NoCall == [code |-> <<>>, tc |-> TestCase("", <<>>)]
NoFile == <<0, 0>>
\* subprocess.run has not come back: no child was started, or it still runs
NoCapture == [state |-> "none"]
\* the CompletedProcess of a child that ended (line 355), or the streams the
\* TimeoutExpired exception carries (line 380)
Capture(state, out, errtext) == [state |-> state, stdout |-> out, stderr |-> errtext]

\* run_quest_campaign is not running; run_arcade_mode is not running
NoCampaign == [pc |-> "out", progress |-> <<>>, shown |-> None]
NoArcade == [pc |-> "out"]

InitExec ==
    /\ campaign = NoCampaign
    /\ rows = <<>>
    /\ arcade = NoArcade
    /\ cap \in 1..MaxCapacity
    /\ sem = cap
    /\ holders = {}
    /\ files = {}
    /\ children = {}
    /\ pc = [p \in Procs |-> "idle"]
    /\ call = [p \in Procs |-> NoCall]
    /\ calls = [p \in Procs |-> 0]
    /\ tmp = [p \in Procs |-> NoFile]
    /\ ret = [p \in Procs |-> NoRet]
    /\ captured = [p \in Procs |-> NoCapture]
    /\ v = [p \in Procs |-> NoFrame]

(***************************************************************************)
(* execute  (lines 336-388)                                                *)
(***************************************************************************)
\* lines 336-344: the call and the static safety scan, up to the semaphore
EnterExecute(p, src, tc) ==
    /\ call' = [call EXCEPT ![p] = [code |-> src, tc |-> tc]]
    /\ calls' = [calls EXCEPT ![p] = @ + 1]
    /\ tmp' = [tmp EXCEPT ![p] = NoFile]
    /\ captured' = [captured EXCEPT ![p] = NoCapture]
    /\ IF Parse(src).status = "error"
       THEN /\ pc' = [pc EXCEPT ![p] = "raised"]
            /\ ret' = [ret EXCEPT ![p] = Raised("UnicodeEncodeError")]
       ELSE IF ~IsSafeCode(src)
       THEN /\ pc' = [pc EXCEPT ![p] = "returned"]
            /\ ret' = [ret EXCEPT ![p] = RejectOutcome(src)]
       ELSE /\ pc' = [pc EXCEPT ![p] = "acquire"]
            /\ ret' = [ret EXCEPT ![p] = NoRet]

\* a thread calls SafeCodeExecutor.execute(code, function, args, kwargs)
ExecuteCall(p, src, tc) ==
    /\ pc[p] = "idle"
    /\ calls[p] = 0
    /\ EnterExecute(p, src, tc)
    /\ UNCHANGED <<campaign, rows, arcade, cap, sem, holders, files, children, v>>

\* a thread whose call of execute has ended calls it again with the same
\* code and test case, up to MaxRuns calls in all
ExecuteAgain(p) ==
    /\ pc[p] \in {"returned", "raised"}
    /\ v[p] = NoFrame
    /\ calls[p] < MaxRuns
    /\ EnterExecute(p, call[p].code, call[p].tc)
    /\ UNCHANGED <<campaign, rows, arcade, cap, sem, holders, files, children, v>>

\* an entry that takes the unit whether or not one is free
AcquireUnguarded(p) ==
    /\ pc[p] = "acquire"
    /\ sem' = sem - 1
    /\ holders' = holders \cup {p}
    /\ pc' = [pc EXCEPT ![p] = "mktemp"]
    /\ UNCHANGED <<campaign, rows, arcade, cap, files, children, call, calls, tmp, ret, captured, v>>

\* an entry that goes on to the file without taking a unit
AcquireSkipped(p) ==
    /\ pc[p] = "acquire"
    /\ pc' = [pc EXCEPT ![p] = "mktemp"]
    /\ UNCHANGED <<campaign, rows, arcade, cap, sem, holders, files, children, call, calls, tmp, ret, captured, v>>

\* line 344: with execution_semaphore, entry (blocks while no unit is free)
Acquire(p) ==
    /\ pc[p] = "acquire"
    /\ sem > 0
    /\ sem' = sem - 1
    /\ holders' = holders \cup {p}
    /\ pc' = [pc EXCEPT ![p] = "mktemp"]
    /\ UNCHANGED <<campaign, rows, arcade, cap, files, children, call, calls, tmp, ret, captured, v>>

\* a temporary file of one fixed name, the same for every invocation
CreateTempFixedName(p) ==
    /\ pc[p] = "mktemp"
    /\ \E created \in BOOLEAN :
         IF created
         THEN /\ files' = files \cup {<<0, 1>>}
              /\ tmp' = [tmp EXCEPT ![p] = <<0, 1>>]
              /\ pc' = [pc EXCEPT ![p] = "write"]
              /\ ret' = ret
         ELSE /\ pc' = [pc EXCEPT ![p] = "release"]
              /\ ret' = [ret EXCEPT ![p] = Raised("OSError")]
              /\ UNCHANGED <<files, tmp>>
    /\ UNCHANGED <<campaign, rows, arcade, cap, sem, holders, children, call, calls, captured, v>>

\* line 345: NamedTemporaryFile(delete=False) creates a file no other
\* invocation has, or raises OSError
CreateTemp(p) ==
    /\ pc[p] = "mktemp"
    /\ \E created \in BOOLEAN :
         IF created
         THEN /\ files' = files \cup {<<p, calls[p]>>}
              /\ tmp' = [tmp EXCEPT ![p] = <<p, calls[p]>>]
              /\ pc' = [pc EXCEPT ![p] = "write"]
              /\ ret' = ret
         ELSE /\ pc' = [pc EXCEPT ![p] = "release"]
              /\ ret' = [ret EXCEPT ![p] = Raised("OSError")]
              /\ UNCHANGED <<files, tmp>>
    /\ UNCHANGED <<campaign, rows, arcade, cap, sem, holders, children, call, calls, captured, v>>

\* lines 420-422: json.dumps raises TypeError on a value it cannot serialize
WrapperError(tc) ==
    IF /\ \A i \in DOMAIN tc.args : JsonSerializable(tc.args[i])
       /\ \A k \in DOMAIN tc.kwargs : JsonSerializable(tc.kwargs[k])
    THEN None ELSE "TypeError"

\* line 345 opens the file in text mode with the encoding of the host's
\* locale; line 347 raises UnicodeEncodeError when that encoding (ASCII,
\* cp1252) has no code for a character of the source.  Which encoding the
\* host has is not the program's choice.
WriteErrors(src) ==
    {None, "OSError"} \cup
        (IF \E i \in DOMAIN src : NonAscii(src[i]) THEN {"UnicodeEncodeError"} ELSE {})

\* lines 346-348: the wrapper is built and written; the with block closes the
\* file.  An exception here (TypeError of json.dumps; OSError or
\* UnicodeEncodeError of the write) leaves the with blocks before the try of
\* line 350 is entered, so the finally of line 384 does not run.
WriteWrapper(p) ==
    /\ pc[p] = "write"
    /\ \E io \in WriteErrors(call[p].code) :
         LET exc == IF WrapperError(call[p].tc) # None THEN WrapperError(call[p].tc) ELSE io
         IN IF exc = None
            THEN /\ pc' = [pc EXCEPT ![p] = "spawn"]
                 /\ ret' = ret
            ELSE /\ pc' = [pc EXCEPT ![p] = "release"]
                 /\ ret' = [ret EXCEPT ![p] = Raised(exc)]
    /\ UNCHANGED <<campaign, rows, arcade, cap, sem, holders, files, children, call, calls, tmp, captured, v>>

\* lines 355-361: subprocess.run starts the child, or raises OSError, which
\* line 382 catches
Spawn(p) ==
    /\ pc[p] = "spawn"
    /\ \E started \in BOOLEAN :
         IF started
         THEN /\ children' = children \cup {p}
              /\ pc' = [pc EXCEPT ![p] = "running"]
              /\ ret' = ret
         ELSE /\ pc' = [pc EXCEPT ![p] = "finally"]
              /\ ret' = [ret EXCEPT ![p] = ExecErrorOutcome("OSError")]
              /\ children' = children
    /\ UNCHANGED <<campaign, rows, arcade, cap, sem, holders, files, call, calls, tmp, captured, v>>

\* lines 355-378: the child ends within the timeout and its output is decoded
ChildExit(p, out, errtext) ==
    /\ pc[p] = "running"
    /\ children' = children \ {p}
    /\ captured' = [captured EXCEPT ![p] = Capture("exited", out, errtext)]
    /\ ret' = [ret EXCEPT ![p] = ParseOutput(out, errtext)]
    /\ pc' = [pc EXCEPT ![p] = "finally"]
    /\ UNCHANGED <<campaign, rows, arcade, cap, sem, holders, files, call, calls, tmp, v>>

\* line 356: the child is python on the path of the temporary file; when no
\* file is there the interpreter cannot open its script, writes that to
\* stderr and exits with status 2
NoScript == Ended(<<>>, "can't open file: [Errno 2] No such file or directory", 2)

\* a child that is left running when its output has been read
ChildRunLingers(p) ==
    /\ pc[p] = "running"
    /\ LET ended == IF tmp[p] \in files
                    THEN RunWrapper(call[p].code, call[p].tc)
                    ELSE NoScript
       IN /\ captured' = [captured EXCEPT ![p] =
                              [state |-> "exited", stdout |-> ended.stdout,
                               stderr |-> ended.stderr, returncode |-> ended.returncode]]
          /\ ret' = [ret EXCEPT ![p] = ParseOutput(ended.stdout, ended.stderr)]
    /\ children' = children
    /\ pc' = [pc EXCEPT ![p] = "finally"]
    /\ UNCHANGED <<campaign, rows, arcade, cap, sem, holders, files, call, calls, tmp, v>>

\* lines 355-378: the child runs the synthesized program of this invocation
\* to its end within the timeout, and its output is decoded
ChildRun(p) ==
    /\ pc[p] = "running"
    /\ LET ended == IF tmp[p] \in files
                    THEN RunWrapper(call[p].code, call[p].tc)
                    ELSE NoScript
       IN /\ captured' = [captured EXCEPT ![p] =
                              [state |-> "exited", stdout |-> ended.stdout,
                               stderr |-> ended.stderr, returncode |-> ended.returncode]]
          /\ ret' = [ret EXCEPT ![p] = ParseOutput(ended.stdout, ended.stderr)]
    /\ children' = children \ {p}
    /\ pc' = [pc EXCEPT ![p] = "finally"]
    /\ UNCHANGED <<campaign, rows, arcade, cap, sem, holders, files, call, calls, tmp, v>>

\* a timeout that decodes what the child had written
ChildTimeoutDecodes(p, out, errtext) ==
    /\ pc[p] = "running"
    /\ children' = children \ {p}
    /\ captured' = [captured EXCEPT ![p] = Capture("timeout", out, errtext)]
    /\ ret' = [ret EXCEPT ![p] = ParseOutput(out, errtext)]
    /\ pc' = [pc EXCEPT ![p] = "finally"]
    /\ UNCHANGED <<campaign, rows, arcade, cap, sem, holders, files, call, calls, tmp, v>>

\* lines 359, 380-381: the timeout expires; subprocess.run kills the child,
\* waits for it and raises TimeoutExpired with what the child had written
ChildTimeout(p, out, errtext) ==
    /\ pc[p] = "running"
    /\ children' = children \ {p}
    /\ captured' = [captured EXCEPT ![p] = Capture("timeout", out, errtext)]
    /\ ret' = [ret EXCEPT ![p] = TimeoutOutcome(TIMEOUT)]
    /\ pc' = [pc EXCEPT ![p] = "finally"]
    /\ UNCHANGED <<campaign, rows, arcade, cap, sem, holders, files, call, calls, tmp, v>>

\* lines 384-388: finally, os.unlink(temp_file)
Unlink(p) ==
    /\ pc[p] = "finally"
    /\ files' = files \ {tmp[p]}
    /\ pc' = [pc EXCEPT ![p] = "release"]
    /\ UNCHANGED <<campaign, rows, arcade, cap, sem, holders, children, call, calls, tmp, ret, captured, v>>

\* an exit that gives the unit back only when execute returns a value
ReleaseOnReturnOnly(p) ==
    /\ pc[p] = "release"
    /\ sem' = IF "raised" \in DOMAIN ret[p] THEN sem ELSE sem + 1
    /\ holders' = IF "raised" \in DOMAIN ret[p] THEN holders ELSE holders \ {p}
    /\ pc' = [pc EXCEPT ![p] = IF "raised" \in DOMAIN ret[p] THEN "raised" ELSE "returned"]
    /\ UNCHANGED <<campaign, rows, arcade, cap, files, children, call, calls, tmp, ret, captured, v>>

\* an exit that leaves the with block without giving the unit back
ReleaseKeepsUnit(p) ==
    /\ pc[p] = "release"
    /\ holders' = holders \ {p}
    /\ pc' = [pc EXCEPT ![p] = IF "raised" \in DOMAIN ret[p] THEN "raised" ELSE "returned"]
    /\ UNCHANGED <<campaign, rows, arcade, cap, sem, files, children, call, calls, tmp, ret, captured, v>>

\* line 344: with execution_semaphore, exit; execute returns or raises
Release(p) ==
    /\ pc[p] = "release"
    /\ sem' = sem + 1
    /\ holders' = holders \ {p}
    /\ pc' = [pc EXCEPT ![p] = IF "raised" \in DOMAIN ret[p] THEN "raised" ELSE "returned"]
    /\ UNCHANGED <<campaign, rows, arcade, cap, files, children, call, calls, tmp, ret, captured, v>>

\* the steps of an invocation after its entry
ExecStep(p, outs, errs) ==
    \/ Acquire(p)
    \/ CreateTemp(p)
    \/ WriteWrapper(p)
    \/ Spawn(p)
    \/ \E out \in outs, errtext \in errs : ChildExit(p, out, errtext)
    \/ \E out \in outs, errtext \in errs : ChildTimeout(p, out, errtext)
    \/ Unlink(p)
    \/ Release(p)

(***************************************************************************)
(* Spec: NumCalls threads, each calling execute once, on a semaphore of    *)
(* any capacity 1..MaxCapacity.                                            *)
(***************************************************************************)
ConcSources == { <<"def solution(a, b):\n    return a + b">>, <<"import os">> }
ConcStdout == { <<SuccessLine("5")>> }

Init == InitExec

Next ==
    \E p \in Procs :
        \/ \E src \in ConcSources : ExecuteCall(p, src, TcAdd)
        \/ ExecStep(p, ConcStdout, {""})

Spec == Init /\ [][Next]_vars

(***************************************************************************)
(* validate_solution  (lines 497-522)                                      *)
(***************************************************************************)
DigitTable ==
    ("0" :> 0) @@ ("1" :> 1) @@ ("2" :> 2) @@ ("3" :> 3) @@ ("4" :> 4) @@
    ("5" :> 5) @@ ("6" :> 6) @@ ("7" :> 7) @@ ("8" :> 8) @@ ("9" :> 9)

IsDigits(s) ==
    Len(s) > 0 /\ \A i \in 1..Len(s) : SubSeq(s, i, i) \in DOMAIN DigitTable

\* a decimal integer literal: digits with no leading zero, or zeros only
IsDecimal(s) ==
    /\ IsDigits(s)
    /\ SubSeq(s, 1, 1) # "0" \/ \A i \in 1..Len(s) : SubSeq(s, i, i) = "0"

RECURSIVE ParseNat(_)
ParseNat(s) ==
    IF Len(s) = 0 THEN 0
    ELSE 10 * ParseNat(SubSeq(s, 1, Len(s) - 1)) + DigitTable[SubSeq(s, Len(s), Len(s))]

\* the reading of a literal off the front of a text: the value and the text
\* after it, or no literal
Lit(val, rest) == [ok |-> TRUE, val |-> val, rest |-> rest]
NoLit == [ok |-> FALSE]

RECURSIVE SkipSpaces(_)
SkipSpaces(s) ==
    IF Len(s) > 0 /\ SubSeq(s, 1, 1) \in {" ", "\t"} THEN SkipSpaces(SubSeq(s, 2, Len(s)))
    ELSE s

RECURSIVE DigitRun(_)
\* the number of digits the text starts with
DigitRun(s) ==
    IF Len(s) > 0 /\ SubSeq(s, 1, 1) \in DOMAIN DigitTable
    THEN 1 + DigitRun(SubSeq(s, 2, Len(s)))
    ELSE 0

\* the character an escape sequence of a string literal stands for; an
\* unknown escape stands for itself, backslash included
Unescaped(e) ==
    CASE e = "n" -> "\n"
      [] e = "t" -> "\t"
      [] e \in {"\\", "'", "\""} -> e
      [] OTHER -> "\\" \o e

RECURSIVE ScanStr(_, _, _)
\* a string literal after its opening quote q: up to the closing quote
ScanStr(s, q, acc) ==
    IF Len(s) = 0 THEN NoLit
    ELSE LET c == SubSeq(s, 1, 1)
         IN IF c = q THEN Lit([str |-> acc], SubSeq(s, 2, Len(s)))
            ELSE IF c = "\n" THEN NoLit
            ELSE IF c = "\\"
            THEN (IF Len(s) < 2 THEN NoLit
                  ELSE ScanStr(SubSeq(s, 3, Len(s)), q, acc \o Unescaped(SubSeq(s, 2, 2))))
            ELSE ScanStr(SubSeq(s, 2, Len(s)), q, acc \o c)

\* a decimal integer literal at the front of the text
ScanNat(s) ==
    LET n == DigitRun(s)
    IN IF n > 0 /\ IsDecimal(SubSeq(s, 1, n))
       THEN Lit([int |-> ParseNat(SubSeq(s, 1, n))], SubSeq(s, n + 1, Len(s)))
       ELSE NoLit

StartsWith(s, prefix) == Len(s) >= Len(prefix) /\ SubSeq(s, 1, Len(prefix)) = prefix

RECURSIVE ScanLit(_)
RECURSIVE ScanItems(_, _)
\* a literal at the front of the text: a string, a list display, a signed
\* decimal integer, None, True or False
ScanLit(s0) ==
    LET s == SkipSpaces(s0)
    IN IF Len(s) = 0 THEN NoLit
       ELSE LET c == SubSeq(s, 1, 1)
                after == SubSeq(s, 2, Len(s))
            IN IF c \in {"'", "\""} THEN ScanStr(after, c, "")
               ELSE IF c = "[" THEN ScanItems(after, <<>>)
               ELSE IF c = "-"
               THEN (LET num == ScanNat(SkipSpaces(after))
                     IN IF num.ok THEN Lit([int |-> 0 - num.val.int], num.rest) ELSE NoLit)
               ELSE IF c \in DOMAIN DigitTable THEN ScanNat(s)
               ELSE IF StartsWith(s, "None") THEN Lit([none |-> TRUE], SubSeq(s, 5, Len(s)))
               ELSE IF StartsWith(s, "True") THEN Lit([bool |-> TRUE], SubSeq(s, 5, Len(s)))
               ELSE IF StartsWith(s, "False") THEN Lit([bool |-> FALSE], SubSeq(s, 6, Len(s)))
               ELSE NoLit

\* the items of a list display after its opening bracket
ScanItems(s0, acc) ==
    LET s == SkipSpaces(s0)
    IN IF Len(s) = 0 THEN NoLit
       ELSE IF SubSeq(s, 1, 1) = "]" THEN Lit([list |-> acc], SubSeq(s, 2, Len(s)))
       ELSE LET item == ScanLit(s)
            IN IF ~item.ok THEN NoLit
               ELSE LET t == SkipSpaces(item.rest)
                    IN IF StartsWith(t, ",")
                       THEN ScanItems(SubSeq(t, 2, Len(t)), Append(acc, item.val))
                       ELSE IF StartsWith(t, "]")
                       THEN Lit([list |-> Append(acc, item.val)], SubSeq(t, 2, Len(t)))
                       ELSE NoLit

\* a decoding that keeps the text as it is
DecodeResultRaw(result) == [str |-> result]

\* lines 510-513: ast.literal_eval(result) on the literals repr writes for
\* integers, strings, None, booleans and lists of these; where it raises
\* (result is None, or the text is no such literal) the value is the result
\* itself
DecodeResult(result) ==
    IF result = None THEN [none |-> TRUE]
    ELSE LET read == ScanLit(result)
         IN IF read.ok /\ SkipSpaces(read.rest) = "" THEN read.val
            ELSE [str |-> result]

\* the feedback lines (lines 499, 508, 516, 518, 520)
NoTestsLine == [kind |-> "info", text |-> "No test cases defined"]
FailLine(i, err) == [kind |-> "fail", test |-> i, text |-> err]
PassLine(i) == [kind |-> "pass", test |-> i]
MismatchLine(i, exp, val) == [kind |-> "mismatch", test |-> i, expected |-> exp, got |-> val]
SummaryLine(all_passed, passed, n) ==
    IF all_passed THEN [kind |-> "all", total |-> n]
    ELSE [kind |-> "some", passed |-> passed, total |-> n]

Frame(at, code, cases, expected, i, passed, feedback, all_passed) ==
    [pc |-> at, code |-> code, cases |-> cases, expected |-> expected, i |-> i,
     passed |-> passed, feedback |-> feedback, all_passed |-> all_passed]

Min(a, b) == IF a <= b THEN a ELSE b

\* a report for no test cases that says the solution failed
EmptyReportFailed(src, cases, expected) ==
    Frame("done", src, cases, expected, 0, 0, <<NoTestsLine>>, FALSE)

\* lines 498-499: the report for an empty list of test cases
EmptyReport(src, cases, expected) ==
    Frame("done", src, cases, expected, 0, 0, <<NoTestsLine>>, TRUE)

\* lines 497-501: a thread calls validate_solution
ValidateCall(p, src, cases, expected) ==
    /\ v[p].pc = "idle"
    /\ pc[p] = "idle"
    /\ calls[p] = 0
    /\ v' = [v EXCEPT ![p] =
                IF cases = <<>> THEN EmptyReport(src, cases, expected)
                ELSE Frame("loop", src, cases, expected, 1, 0, <<>>, FALSE)]
    /\ UNCHANGED <<campaign, rows, arcade, cap, sem, holders, files, children, pc, call, calls, tmp, ret, captured>>

\* a report that is content with one passed case
FinalReportAnyPassed(f) ==
    LET all_passed == f.passed > 0
    IN [f EXCEPT !.pc = "done",
                 !.all_passed = all_passed,
                 !.feedback = <<SummaryLine(all_passed, f.passed, Len(f.cases))>> \o f.feedback]

\* a report that counts the passes against the cases that were run
FinalReportOfRun(f) ==
    LET all_passed == f.passed = f.i - 1
    IN [f EXCEPT !.pc = "done",
                 !.all_passed = all_passed,
                 !.feedback = <<SummaryLine(all_passed, f.passed, f.i - 1)>> \o f.feedback]

\* lines 519-522: the report after the loop
FinalReport(f) ==
    LET all_passed == f.passed = Len(f.cases)
    IN [f EXCEPT !.pc = "done",
                 !.all_passed = all_passed,
                 !.feedback = <<SummaryLine(all_passed, f.passed, Len(f.cases))>> \o f.feedback]

\* lines 502-506 and 519-522: the next pair of zip(test_cases,
\* expected_outputs) is run by execute, or the loop ends and the report is
\* built
ValidateLoop(p) ==
    /\ v[p].pc = "loop"
    /\ IF v[p].i <= Min(Len(v[p].cases), Len(v[p].expected))
       THEN /\ EnterExecute(p, v[p].code, v[p].cases[v[p].i])
            /\ v' = [v EXCEPT ![p].pc = "call"]
       ELSE /\ v' = [v EXCEPT ![p] = FinalReport(v[p])]
            /\ UNCHANGED <<pc, call, calls, tmp, ret, captured>>
    /\ UNCHANGED <<campaign, rows, arcade, cap, sem, holders, files, children>>

\* a judge that ends the loop at the first failure
JudgeShortCircuit(f, r) ==
    IF ~r.ok
    THEN [f EXCEPT !.pc = "loop", !.i = Len(f.cases) + 1,
                   !.feedback = Append(@, FailLine(f.i, r.err))]
    ELSE [f EXCEPT !.pc = "loop", !.i = @ + 1, !.passed = @ + 1,
                   !.feedback = Append(@, PassLine(f.i))]

\* a judge that starts the count again after a failure
JudgeForgetsPassed(f, r) ==
    IF ~r.ok
    THEN [f EXCEPT !.pc = "loop", !.i = @ + 1, !.passed = 0,
                   !.feedback = Append(@, FailLine(f.i, r.err))]
    ELSE LET val == DecodeResult(r.result)
             exp == f.expected[f.i]
         IN IF val = exp
            THEN [f EXCEPT !.pc = "loop", !.i = @ + 1, !.passed = @ + 1,
                           !.feedback = Append(@, PassLine(f.i))]
            ELSE [f EXCEPT !.pc = "loop", !.i = @ + 1,
                           !.feedback = Append(@, MismatchLine(f.i, exp, val))]

\* a judge that puts the newest line first
JudgeNewestFirst(f, r) ==
    IF ~r.ok
    THEN [f EXCEPT !.pc = "loop", !.i = @ + 1,
                   !.feedback = <<FailLine(f.i, r.err)>> \o @]
    ELSE LET val == DecodeResult(r.result)
             exp == f.expected[f.i]
         IN IF val = exp
            THEN [f EXCEPT !.pc = "loop", !.i = @ + 1, !.passed = @ + 1,
                           !.feedback = <<PassLine(f.i)>> \o @]
            ELSE [f EXCEPT !.pc = "loop", !.i = @ + 1,
                           !.feedback = <<MismatchLine(f.i, exp, val)>> \o @]

\* lines 507-518: the feedback and the counter after one execute
Judge(f, r) ==
    IF ~r.ok
    THEN [f EXCEPT !.pc = "loop", !.i = @ + 1,
                   !.feedback = Append(@, FailLine(f.i, r.err))]
    ELSE LET val == DecodeResult(r.result)
             exp == f.expected[f.i]
         IN IF val = exp
            THEN [f EXCEPT !.pc = "loop", !.i = @ + 1, !.passed = @ + 1,
                           !.feedback = Append(@, PassLine(f.i))]
            ELSE [f EXCEPT !.pc = "loop", !.i = @ + 1,
                           !.feedback = Append(@, MismatchLine(f.i, exp, val))]

\* lines 506-518: execute has returned and its result is judged, or it has
\* raised and the exception leaves validate_solution
ValidateResume(p) ==
    /\ v[p].pc = "call"
    /\ pc[p] \in {"returned", "raised"}
    /\ v' = [v EXCEPT ![p] =
                IF pc[p] = "raised" THEN [v[p] EXCEPT !.pc = "raised"]
                ELSE Judge(v[p], ret[p])]
    /\ pc' = [pc EXCEPT ![p] = "idle"]
    /\ UNCHANGED <<campaign, rows, arcade, cap, sem, holders, files, children, call, calls, tmp, ret, captured>>

(***************************************************************************)
(* Properties of execute under concurrency (checked under Spec).           *)
(***************************************************************************)
\* the invocation of thread p is in progress
Active(p) == pc[p] \notin {"idle", "returned", "raised"}
\* the invocation of thread p has ended, by a return or by an exception
Finished(p) == pc[p] \in {"returned", "raised"}
\* thread p's invocation has a temporary file of its own on disk
OwnsFile(p) == tmp[p] # NoFile /\ tmp[p] \in files

\* C1: at most cap invocations are between acquiring and releasing the
\* execution semaphore, at most cap invocations own a temporary file or a
\* running child, and so never more than cap children run at once.
C1_BoundedParallelism ==
    /\ Cardinality(holders) <= cap
    /\ Cardinality({p \in Procs : Active(p) /\ (OwnsFile(p) \/ p \in children)}) <= cap
    /\ Cardinality(children) <= cap

\* C1 witness: capacity 2 is used up by two running children while a third
\* caller waits for a unit.
C1_Witness ==
    /\ cap = 2
    /\ Cardinality(children) = 2
    /\ \E p \in Procs : pc[p] = "acquire"

\* C2: an invocation that has returned or raised has left no temporary file.
C2_NoFileLeftBehind ==
    \A p \in Procs : Finished(p) => ~OwnsFile(p)

\* C3: the free units plus the invocations inside the guarded region are the
\* capacity, the free units are never negative, and once every call has
\* finished all units are free again.
C3_UnitsConserved ==
    /\ sem >= 0
    /\ sem + Cardinality(holders) = cap
    /\ \A p \in Procs : Finished(p) => p \notin holders
    /\ (\A p \in Procs : Finished(p)) => sem = cap

\* C3 witness: every call has finished, one of them by the exception raised
\* while the wrapper was written, one by a timeout, and all units are free.
C3_Witness ==
    /\ \A p \in Procs : Finished(p)
    /\ \E p \in Procs : ret[p] = Raised("OSError") /\ tmp[p] # NoFile
    /\ \E p \in Procs : ret[p] = TimeoutOutcome(TIMEOUT)
    /\ sem = cap

\* C4: an invocation in progress that owns a temporary file or a child holds
\* a unit, and a caller waiting for a unit holds none and has created no
\* file and no child.
C4_UnitBeforeFileAndChild ==
    /\ \A p \in Procs :
         Active(p) /\ (OwnsFile(p) \/ p \in children) => p \in holders
    /\ \A p \in Procs :
         pc[p] = "acquire" => p \notin holders /\ tmp[p] = NoFile /\ p \notin children

\* C4 witness: with no unit free, one caller waits, having done nothing,
\* while a holder owns its file and its child.
C4_Witness ==
    /\ sem = 0
    /\ \E p \in Procs : pc[p] = "acquire" /\ tmp[p] = NoFile
    /\ \E p \in holders : OwnsFile(p) /\ p \in children

(***************************************************************************)
(* SpecScreen: one caller, every source of the pool, every child output.   *)
(***************************************************************************)
NextScreen ==
    \/ \E src \in Sources, tc \in {TcAdd, TcSet} : ExecuteCall(1, src, tc)
    \/ ExecStep(1, StdoutPool, StderrPool)

SpecScreen == InitExec /\ [][NextScreen]_vars

\* thread p has called execute
Called(p) == calls[p] > 0
\* the invocation did nothing but screen: it holds no unit, it has created
\* no file and no child
NoSideEffect(p) ==
    /\ p \notin holders
    /\ sem = cap
    /\ tmp[p] = NoFile
    /\ files = {}
    /\ p \notin children
\* execute has returned its rejection
Rejected(p) == pc[p] = "returned" /\ ret[p] = Outcome(FALSE, None, UnsafeMsg)

\* the modules an import statement makes the program load
ImportedModules(node) ==
    IF node.type = "Import" THEN { node.names[i] : i \in DOMAIN node.names }
    ELSE IF node.type = "ImportFrom" /\ node.module # None
    THEN {node.module} \cup { node.module \o "." \o node.names[i] : i \in DOMAIN node.names }
    ELSE {}
\* a module and the packages it lies in: os.path, os
Packages(m) ==
    { SubSeq(m, 1, i) : i \in { j \in 1..Len(m) : j = Len(m) \/ SubSeq(m, j + 1, j + 1) = "." } }
\* the source parses and some import statement of it loads a module of the
\* deny-list, or a module inside a package of the deny-list
ContainsDeniedImport(src) ==
    /\ Parse(src).status = "ok"
    /\ LET nodes == Walk(Parse(src).tree)
       IN \E i \in DOMAIN nodes : \E m \in ImportedModules(nodes[i]) :
            Packages(m) \cap blocked_imports # {}

\* C5: for every source that contains a denied import, execute returns its
\* rejection, and does so without acquiring a unit, creating a temporary
\* file or spawning a child.
C5_DeniedImportRejected ==
    \A p \in Procs :
        Called(p) /\ ContainsDeniedImport(call[p].code) => Rejected(p) /\ NoSideEffect(p)

\* two characters are the same letter, in whatever case
SameLetter(a, b) ==
    \/ a = b
    \/ a \in DOMAIN LowerTable /\ LowerTable[a] = b
    \/ b \in DOMAIN LowerTable /\ LowerTable[b] = a
\* the text contains one of eval, exec, __import__, open( in some letter case
HasDeniedToken(text) ==
    \E tok \in {"eval", "exec", "__import__", "open("} :
        \E i \in 1..(Len(text) - Len(tok) + 1) :
            \A k \in 1..Len(tok) : SameLetter(SubSeq(text, i + k - 1, i + k - 1), SubSeq(tok, k, k))

\* C6 as claimed: whenever the pre-screen gives its verdict on a source whose
\* text contains a denied token in any letter case, the verdict is a
\* rejection, whether or not the source parses.
C6_TokenAlwaysRejected ==
    \A p \in Procs :
        Called(p) /\ Parse(call[p].code).status # "error" /\ HasDeniedToken(Text(call[p].code))
            => Rejected(p)

\* C6 as amended: a source that parses and whose text contains a denied token
\* in any letter case is rejected, whatever its imports, before any side
\* effect; a source that is a SyntaxError is not rejected even when its text
\* contains a denied token.
C6_TokenRejectedWhenParsed ==
    \A p \in Procs :
        Called(p) /\ HasDeniedToken(Text(call[p].code)) =>
            /\ Parse(call[p].code).status = "ok" => Rejected(p) /\ NoSideEffect(p)
            /\ Parse(call[p].code).status = "SyntaxError" => ~Rejected(p)

\* C6 witness: a source that parses, imports nothing and holds a denied token
\* in upper case only has been rejected.
C6_Witness ==
    /\ call[1].code = <<"EVAL(1)">>
    /\ HasDeniedToken(Text(call[1].code))
    /\ ~Contains(Text(call[1].code), "eval")
    /\ Rejected(1)

\* C7: a source that fails to parse (ast.parse raises SyntaxError) is let
\* through by the pre-screen: execute does not reject it and goes on to the
\* semaphore, the wrapper and the child, so that an invocation of it that
\* has ended had created its temporary file, or failed to create it.
C7_UnparsablePassesThrough ==
    \A p \in Procs :
        Called(p) /\ Parse(call[p].code).status = "SyntaxError" =>
            /\ ~Rejected(p)
            /\ pc[p] \in {"returned", "raised"} => tmp[p] # NoFile \/ ret[p] = Raised("OSError")

\* C7 witness: the child of a source that does not parse, and whose text
\* names a denied module and a denied token, is running.
C7_Witness ==
    /\ call[1].code = <<"def f(:", "import os">>
    /\ 1 \in children
    /\ 1 \in holders

\* the first denied name the scan of lines 403-409 meets
FirstOffending(tree) ==
    LET nodes == Walk(tree)
        i == CHOOSE i \in DOMAIN nodes :
                 NodeBlocked(nodes[i]) /\ \A j \in 1..(i - 1) : ~NodeBlocked(nodes[j])
        check == CheckList(nodes[i])
        k == CHOOSE k \in DOMAIN check :
                 check[k] \in blocked_imports /\ \A j \in 1..(k - 1) : check[j] \notin blocked_imports
    IN check[k]

\* the source parses and the import check of lines 403-409 rejects it
RejectedForImport(p) ==
    /\ Called(p)
    /\ Parse(call[p].code).status = "ok"
    /\ ImportsBlocked(Parse(call[p].code).tree)

\* C8 as claimed: the reason of a rejection for denied imports names the
\* first denied module met in the source.
C8_ReasonNamesModule ==
    \A p \in Procs :
        RejectedForImport(p) =>
            /\ pc[p] = "returned"
            /\ ~ret[p].ok
            /\ Contains(ret[p].err, FirstOffending(Parse(call[p].code).tree))

\* C8 as amended: every rejection for denied imports carries the same fixed
\* reason, which names no module.
C8_ReasonIsFixed ==
    \A p \in Procs :
        RejectedForImport(p) =>
            /\ pc[p] = "returned"
            /\ ret[p] = Outcome(FALSE, None, UnsafeMsg)
            /\ ~Contains(ret[p].err, FirstOffending(Parse(call[p].code).tree))

\* C8 witness: a source whose first denied module is socket, met inside a
\* function body, has been rejected.
C8_Witness ==
    /\ RejectedForImport(1)
    /\ FirstOffending(Parse(call[1].code).tree) = "socket"
    /\ pc[1] = "returned"

(***************************************************************************)
(* SpecValidate: one caller of validate_solution, with 0..MaxCases test    *)
(* cases and 0..MaxCases expected outputs.                                 *)
(***************************************************************************)
ValSources ==
    { <<"def solution(a, b):\n    return a + b">>,
      <<"import os">>,
      <<"def f(:", "EVAL(1)">>,
      <<"s = '\\udc80'">>,
      <<"def solution(a, b):\n    return a + b", "# caf\\u00e9">> }
CaseLists == UNION { [1..n -> {TcAdd}] : n \in 0..MaxCases }
ExpectedLists == UNION { [1..n -> {[int |-> 5]}] : n \in 0..MaxCases }

NextValidate ==
    \/ \E src \in ValSources, cases \in CaseLists, expected \in ExpectedLists :
          ValidateCall(1, src, cases, expected)
    \/ ValidateLoop(1)
    \/ ValidateResume(1)
    \/ ExecStep(1, StdoutPool, StderrPool)

SpecValidate == InitExec /\ [][NextValidate]_vars

\* the pre-screen gives the verdict "not safe" on the source
ScreenRejects(src) == Parse(src).status # "error" /\ ~IsSafeCode(src)

\* C9 as claimed: for a source the screen rejects and a non-empty list of
\* test cases, the report is allPassed = false with exactly one feedback
\* line, the rejection reason.
C9_ShortCircuit ==
    \A p \in Procs :
        v[p].pc = "done" /\ v[p].cases # <<>> /\ ScreenRejects(v[p].code) =>
            /\ ~v[p].all_passed
            /\ Len(v[p].feedback) = 1
            /\ v[p].feedback[1].kind = "fail"
            /\ v[p].feedback[1].text = UnsafeMsg

\* C9 as amended: for a source the screen rejects and N >= 1 test cases,
\* validate_solution runs execute for every pair of a test case and an
\* expected output, each is rejected without a unit, a file or a child, and
\* the report is allPassed = false with the summary "0/N" as its first line
\* and after it one failure line per pair, in order, each carrying the
\* rejection reason.
C9_RejectedPerCase ==
    \A p \in Procs :
        v[p].pc # "idle" /\ v[p].cases # <<>> /\ ScreenRejects(v[p].code) =>
            /\ NoSideEffect(p)
            /\ v[p].pc \in {"loop", "call", "done"}
            /\ v[p].pc = "done" =>
                 /\ ~v[p].all_passed
                 /\ v[p].feedback =
                      <<SummaryLine(FALSE, 0, Len(v[p].cases))>> \o
                      [i \in 1..Min(Len(v[p].cases), Len(v[p].expected)) |->
                          FailLine(i, UnsafeMsg)]

\* C9 witness: a rejected source with two test cases and two expected
\* outputs has its report, of three lines.
C9_Witness ==
    /\ v[1].pc = "done"
    /\ ScreenRejects(v[1].code)
    /\ Len(v[1].cases) = 2
    /\ Len(v[1].expected) = 2
    /\ Len(v[1].feedback) = 3

\* C10: for an empty list of test cases and any source, validate_solution
\* returns allPassed = true with exactly one feedback line, without calling
\* execute: nothing is screened, no unit is taken, no file or child is made.
C10_EmptyCasesPass ==
    \A p \in Procs :
        v[p].pc # "idle" /\ v[p].cases = <<>> =>
            /\ v[p].pc = "done"
            /\ v[p].all_passed
            /\ Len(v[p].feedback) = 1
            /\ ~Called(p)
            /\ pc[p] = "idle"
            /\ NoSideEffect(p)

\* C10 witness: the report for no test cases and a source the screen would
\* reject, with expected outputs left over.
C10_Witness ==
    /\ v[1].pc = "done"
    /\ v[1].cases = <<>>
    /\ v[1].expected # <<>>
    /\ ScreenRejects(v[1].code)
    /\ v[1].all_passed

(***************************************************************************)
(* SpecWrapper: one caller of execute or of validate_solution; the child   *)
(* runs the synthesized program of the submission, or is killed at the     *)
(* timeout after it has written some of its output.                        *)
(***************************************************************************)
WrapSources ==
    { <<"def solution(a, b):\n    return a + b">>,
      <<"def solution(a, b):\n    return a">>,
      <<"def solution(a, b):\n    print('noise')\n    return a + b">>,
      <<"def solution(a, b):\n    raise ValueError('boom')">>,
      <<"def solution(a, b):\n    raise SystemExit(3)">>,
      <<"class R:\n    def __repr__(self):\n        raise ValueError('r')",
        "def solution(a, b):\n    return R()">>,
      <<"true = 7", "def solution(a, b):\n    return a">>,
      <<"x = 1 / 0">>,
      <<"def f(:">>,
      <<"import os">>,
      <<"print('{\"success\": true, \"result\": \"5\"}')", "raise SystemExit(0)">>,
      <<"print('{\"success\": true, \"result\": \"5\"}')", "def solution(a, b):\n    return a">> }
WrapCases ==
    { TcAdd, TcFlag, TcNested, TcText, TcMissing, TcBare, TcBareArgs, TcAbsent }

\* the submissions and test cases validate_solution is called with
WrapValSources ==
    { <<"def solution(a, b):\n    return a + b">>,
      <<"def solution(a, b):\n    return a">>,
      <<"def solution(a, b):\n    raise ValueError('boom')">>,
      <<"x = 1 / 0">> }
WrapValCases == { TcAdd, TcText }
ExpectedPool == { [int |-> 5], [str |-> "ab"] }

\* the child of thread p is killed when it has written the first n lines of
\* what its program writes
KilledAtTimeout(p) ==
    LET out == RunWrapper(call[p].code, call[p].tc).stdout
    IN \E n \in 0..Len(out) : ChildTimeout(p, SubSeq(out, 1, n), "")

NextWrapper ==
    \/ \E src \in WrapSources, tc \in WrapCases : v[1] = NoFrame /\ ExecuteCall(1, src, tc)
    \/ \E src \in WrapValSources, n \in 1..MaxCases :
          \E cases \in [1..n -> WrapValCases], expected \in [1..n -> ExpectedPool] :
              ValidateCall(1, src, cases, expected)
    \/ ValidateLoop(1)
    \/ ValidateResume(1)
    \/ Acquire(1)
    \/ CreateTemp(1)
    \/ WriteWrapper(1)
    \/ Spawn(1)
    \/ ChildRun(1)
    \/ KilledAtTimeout(1)
    \/ Unlink(1)
    \/ Release(1)

\* a single caller never waits: the capacity is the least the configuration
\* allows
InitWrapper == InitExec /\ cap = 1

SpecWrapper == InitWrapper /\ [][NextWrapper]_vars

\* validate_solution has returned its report for N >= 1 test cases and as
\* many expected outputs
Reported(p) ==
    /\ v[p].pc = "done"
    /\ v[p].cases # <<>>
    /\ Len(v[p].expected) = Len(v[p].cases)
\* the per-case lines of a report: its feedback without the summary line
CaseLines(p) == Tail(v[p].feedback)

\* C11: in the report for N >= 1 test cases and N expected outputs,
\* allPassed is true exactly when the pass counter is N, and the pass counter
\* is the number of pass lines, so allPassed is true exactly when every one of
\* the N cases has a pass line; one failure line (an error or a timeout) or
\* one mismatch line makes allPassed false, and the summary says the same.
C11_AllPassedIffEveryCasePassed ==
    \A p \in Procs :
        Reported(p) =>
            LET N == Len(v[p].cases)
                lines == CaseLines(p)
            IN /\ v[p].all_passed <=> (v[p].passed = N)
               /\ v[p].passed = Cardinality({k \in DOMAIN lines : lines[k].kind = "pass"})
               /\ v[p].all_passed <=>
                     (Len(lines) = N /\ \A k \in DOMAIN lines : lines[k].kind = "pass")
               /\ (\E k \in DOMAIN lines : lines[k].kind \in {"fail", "mismatch"})
                     => ~v[p].all_passed
               /\ v[p].feedback[1] = SummaryLine(v[p].all_passed, v[p].passed, N)

\* C11 witness: of two cases the first passed and the second timed out, and
\* the report says allPassed = false with a pass counter of 1.
C11_Witness ==
    /\ Reported(1)
    /\ Len(v[1].cases) = 2
    /\ v[1].passed = 1
    /\ ~v[1].all_passed
    /\ CaseLines(1)[1] = PassLine(1)
    /\ CaseLines(1)[2] = FailLine(2, TimeoutOutcome(TIMEOUT).err)

\* validate_solution is inside its loop, with as many expected outputs as
\* test cases
InLoop(p) ==
    /\ v[p].pc \in {"loop", "call"}
    /\ Len(v[p].expected) = Len(v[p].cases)
\* line k of the per-case lines is a line about test k
IsLineOfTest(line, k) == line.kind \in {"pass", "fail", "mismatch"} /\ line.test = k

\* C12: for N >= 1 test cases, N expected outputs and a source that passes the
\* screening: while the loop runs, the feedback holds one line for each case
\* judged so far, line k being about test k, and the run in progress is the
\* run of test case i of the input; judging a case appends one line about it
\* and changes no earlier line; the report is the summary line followed by
\* exactly N lines, line k about test k.
C12_OneLinePerCaseInOrder ==
    /\ [](\A p \in Procs :
            v[p].pc # "idle" /\ ~ScreenRejects(v[p].code) =>
              /\ InLoop(p) =>
                   /\ Len(v[p].feedback) = v[p].i - 1
                   /\ \A k \in DOMAIN v[p].feedback : IsLineOfTest(v[p].feedback[k], k)
              /\ InLoop(p) /\ v[p].pc = "call" =>
                   /\ v[p].i \in DOMAIN v[p].cases
                   /\ call[p] = [code |-> v[p].code, tc |-> v[p].cases[v[p].i]]
              /\ Reported(p) =>
                   /\ v[p].feedback[1].kind \in {"all", "some"}
                   /\ Len(CaseLines(p)) = Len(v[p].cases)
                   /\ \A k \in DOMAIN CaseLines(p) : IsLineOfTest(CaseLines(p)[k], k))
    /\ [][\A p \in Procs :
            /\ InLoop(p) /\ v[p].pc = "call" /\ v'[p].pc = "loop" =>
                 /\ Len(v'[p].feedback) = Len(v[p].feedback) + 1
                 /\ SubSeq(v'[p].feedback, 1, Len(v[p].feedback)) = v[p].feedback
                 /\ IsLineOfTest(v'[p].feedback[Len(v'[p].feedback)], v[p].i)
            /\ InLoop(p) /\ v[p].pc = "loop" /\ v'[p].pc = "done" =>
                 Tail(v'[p].feedback) = v[p].feedback]_vars

\* C12 witness: the report for two different test cases whose runs ended
\* differently: the first line after the summary is the failure of test 1,
\* the second the pass of test 2.
C12_Witness ==
    /\ Reported(1)
    /\ ~ScreenRejects(v[1].code)
    /\ v[1].cases = <<TcText, TcAdd>>
    /\ CaseLines(1)[1].kind = "fail" /\ CaseLines(1)[1].test = 1
    /\ CaseLines(1)[2] = PassLine(2)

\* validate_solution takes the outcome execute has returned for test case i
Judging(p) == v[p].pc = "call" /\ pc[p] = "returned"

\* C13: when execute returns a Failure or a Timeout for test case i,
\* validate_solution appends one failure line for test i that carries the
\* outcome's message, leaves the pass counter as it was and goes on with test
\* case i + 1; the loop ends only after the last pair, so that a report with
\* failure lines still has a line for every case, and a case after a failed
\* one can pass.
C13_FailureIsNotFatal ==
    /\ [][\A p \in Procs :
            Judging(p) /\ ~ret[p].ok /\ v'[p] # v[p] =>
                /\ v'[p].pc = "loop"
                /\ v'[p].feedback = Append(v[p].feedback, FailLine(v[p].i, ret[p].err))
                /\ v'[p].passed = v[p].passed
                /\ v'[p].i = v[p].i + 1]_vars
    /\ [](\A p \in Procs :
            /\ v[p].pc = "done" /\ v[p].cases # <<>> =>
                  v[p].i = Min(Len(v[p].cases), Len(v[p].expected)) + 1
            /\ Reported(p) => Len(CaseLines(p)) = Len(v[p].cases))

\* C13 witness: the first of two cases ran into the timeout and the second
\* passed: the report has the failure line with the timeout message, then
\* the pass line, and a pass counter of 1.
C13_Witness ==
    /\ Reported(1)
    /\ CaseLines(1) = <<FailLine(1, "Execution timeout (5s exceeded)"), PassLine(2)>>
    /\ v[1].passed = 1

\* the values whose textual representation the submissions of the pool return
KnownValues == { [int |-> n] : n \in 0..10 } \cup { [str |-> "ab"] }
\* the value a result text stands for: the value it is the representation
\* of, and the text itself when it is the representation of none
ValueOfText(text) ==
    IF \E val \in KnownValues : Repr(val) = text
    THEN CHOOSE val \in KnownValues : Repr(val) = text
    ELSE [str |-> text]

\* C14: when execute returns Success(resultText) for test case i, the case is
\* counted as passed (pass line appended, pass counter incremented) exactly
\* when the value resultText stands for equals the expected output i;
\* otherwise a mismatch line with the expected and the actual value is
\* appended and the counter is unchanged.  And the submission
\* def solution(a, b): return a + b with the test case solution(2, 3) and the
\* expected output 5, whose child ran to its end, is reported as
\* allPassed = true with one pass line.
C14_PassIffEqual ==
    /\ [][\A p \in Procs :
            Judging(p) /\ ret[p].ok /\ v'[p] # v[p] =>
                LET i == v[p].i
                    exp == v[p].expected[i]
                    val == ValueOfText(ret[p].result)
                IN /\ v'[p].pc = "loop"
                   /\ val = exp =>
                        /\ v'[p].feedback = Append(v[p].feedback, PassLine(i))
                        /\ v'[p].passed = v[p].passed + 1
                   /\ val # exp =>
                        /\ v'[p].feedback = Append(v[p].feedback, MismatchLine(i, exp, val))
                        /\ v'[p].passed = v[p].passed]_vars
    /\ [](\A p \in Procs :
            /\ v[p].pc = "done"
            /\ v[p].code = <<"def solution(a, b):\n    return a + b">>
            /\ v[p].cases = <<TcAdd>>
            /\ v[p].expected = <<[int |-> 5]>>
            /\ captured[p].state = "exited"
            => /\ v[p].all_passed
               /\ v[p].feedback = <<SummaryLine(TRUE, 1, 1), PassLine(1)>>)

\* C14 witness: the report of the scenario, and with it a run whose result
\* text '5' was decoded to the number 5.
C14_Witness ==
    /\ v[1].pc = "done"
    /\ v[1].code = <<"def solution(a, b):\n    return a + b">>
    /\ v[1].cases = <<TcAdd>>
    /\ v[1].expected = <<[int |-> 5]>>
    /\ ret[1] = Outcome(TRUE, "5", "")
    /\ v[1].all_passed

(***************************************************************************)
(* Properties of the runner's outcome.                                     *)
(***************************************************************************)
\* the child of thread p's invocation was killed at the timeout
TimedOut(p) == captured[p].state = "timeout"
\* the child of thread p's invocation ran to its end
RanToEnd(p) == captured[p].state = "exited"

\* C15: when the timeout expires before the child has ended, the outcome of
\* the invocation is the Timeout failure, whatever the child had written by
\* then, be it a complete success record; its message names the configured
\* limit in seconds; the child is no longer running, and no child of an
\* invocation is running once execute has returned or raised.
C15_TimeoutWhateverWasWritten ==
    \A p \in Procs :
        /\ TimedOut(p) =>
              /\ ret[p] = Outcome(FALSE, None, ret[p].err)
              /\ Contains(ret[p].err, "timeout")
              /\ Contains(ret[p].err, IntToStr(TIMEOUT) \o "s")
              /\ p \notin children
        /\ Finished(p) => p \notin children

\* C15 witness: execute has returned Timeout for a child that was killed
\* after it had written its whole success record.
C15_Witness ==
    /\ TimedOut(1)
    /\ captured[1].stdout = <<SuccessLine("5")>>
    /\ pc[1] = "returned"
    /\ ret[1] = TimeoutOutcome(TIMEOUT)

\* the lines that are not blank
NonEmptyLines(lines) == { i \in DOMAIN lines : lines[i] # BlankLine }
\* the last line that is not blank
LastNonEmpty(lines) ==
    lines[CHOOSE i \in NonEmptyLines(lines) : \A j \in NonEmptyLines(lines) : j <= i]
\* the line is a record of the schema
IsSuccessRecord(line) ==
    /\ line.kind = "object"
    /\ DOMAIN line.obj = {"success", "result"}
    /\ line.obj.success
IsFailureRecord(line) ==
    /\ line.kind = "object"
    /\ DOMAIN line.obj = {"success", "error"}
    /\ ~line.obj.success

\* C16: for a child that ran to its end, the outcome is decided by the last
\* non-empty line of its standard output alone, whatever lines come before it
\* (records among them) and whatever blank lines follow it and whatever the
\* standard error holds: a record with success = true gives Success(result),
\* a record with success = false gives Failure(error).
C16_LastLineDecides ==
    \A p \in Procs :
        RanToEnd(p) /\ NonEmptyLines(captured[p].stdout) # {} =>
            LET last == LastNonEmpty(captured[p].stdout)
            IN /\ IsSuccessRecord(last) => ret[p] = Outcome(TRUE, last.obj.result, "")
               /\ IsFailureRecord(last) => ret[p] = Outcome(FALSE, None, last.obj.error)

\* C16 witness: the output was a success record, then a failure record, then
\* a blank line, and the outcome is the failure of the second record.
C16_Witness ==
    /\ RanToEnd(1)
    /\ captured[1].stdout = <<SuccessLine("9"), FailureLine("late"), BlankLine>>
    /\ captured[1].stderr # ""
    /\ ret[1] = Outcome(FALSE, None, "late")
    /\ pc[1] = "returned"

\* the output of the child holds no record to go by: it is empty, or its last
\* non-empty line is no JSON, or JSON that is no record of the schema
NoValidRecord(lines) ==
    \/ NonEmptyLines(lines) = {}
    \/ /\ ~IsSuccessRecord(LastNonEmpty(lines))
       /\ ~IsFailureRecord(LastNonEmpty(lines))

\* C17: for a child that ran to its end without leaving a valid record,
\* execute returns a Failure that carries the standard error when there is
\* one and a fixed placeholder otherwise; it returns no Success and raises
\* nothing.
C17_NoRecordFallsBackToStderr ==
    \A p \in Procs :
        RanToEnd(p) /\ NoValidRecord(captured[p].stdout) =>
            /\ "raised" \notin DOMAIN ret[p]
            /\ ~ret[p].ok
            /\ ret[p].result = None
            /\ captured[p].stderr # "" => ret[p].err = captured[p].stderr
            /\ captured[p].stderr = "" => ret[p].err \in {"No output", "Invalid output format"}

(***************************************************************************)
(* Properties of the synthesized program (checked under SpecWrapper).      *)
(***************************************************************************)
\* the globals of the program once the submission has run at module level
GlobalsOf(src) == RunUser(src, <<>>).globals
\* the program of the invocation gets as far as its driver code with a
\* target to resolve: the submission compiles and runs at module level
\* without raising
ReachesDriver(src, tc) ==
    /\ Parse(src).status = "ok"
    /\ RunUser(src, <<>>).how = "end"
    /\ TestExpr(tc) # ""
\* something is raised while the target is resolved, while the arguments are
\* built and the target is called, or while its result is turned into text
FailsInStage(src, tc) ==
    /\ ReachesDriver(src, tc)
    /\ \/ tc.function \notin DOMAIN GlobalsOf(src)
       \/ /\ tc.function \in DOMAIN GlobalsOf(src)
          /\ LET args == PassedArgs(tc, GlobalsOf(src))
             IN \/ IsExc(args)
                \/ /\ ~IsExc(args)
                   /\ LET val == CallTarget(GlobalsOf(src)[tc.function], args.list,
                                            GlobalsOf(src)).val
                      IN "exits" \in DOMAIN val \/ IsExc(val) \/ ReprRaises(val)
\* the records among the lines
Records(lines) == { i \in DOMAIN lines : lines[i].kind = "object" }

\* C18: whenever something is raised during the resolution of the target,
\* during its invocation or during the serialization of its result, the
\* program ends normally (exit status 0) having written exactly one record,
\* a failure record, as the last non-empty line of its standard output.
C18_EveryFailureGivesARecord ==
    \A p \in Procs :
        /\ RanToEnd(p)
        /\ "returncode" \in DOMAIN captured[p]
        /\ FailsInStage(call[p].code, call[p].tc)
        => /\ captured[p].returncode = 0
           /\ Cardinality(Records(captured[p].stdout)) = 1
           /\ NonEmptyLines(captured[p].stdout) # {}
           /\ IsFailureRecord(LastNonEmpty(captured[p].stdout))

\* C19: when the arguments of the test case are JSON-representable values
\* and the program gets to call its target, the values the target is called
\* with are the arguments of the test case; a target that returns its first
\* argument makes execute return the representation of that argument.
C19_ArgumentsArriveUnchanged ==
    \A p \in Procs :
        /\ RanToEnd(p)
        /\ "returncode" \in DOMAIN captured[p]
        /\ ReachesDriver(call[p].code, call[p].tc)
        /\ call[p].tc.function \in DOMAIN GlobalsOf(call[p].code)
        /\ \A i \in DOMAIN call[p].tc.args : JsonSerializable(call[p].tc.args[i])
        => /\ PassedArgs(call[p].tc, GlobalsOf(call[p].code)) = [list |-> call[p].tc.args]
           /\ GlobalsOf(call[p].code)[call[p].tc.function] = [fn |-> "first"]
                 => ret[p] = Outcome(TRUE, Repr(call[p].tc.args[1]), "")

(***************************************************************************)
(* What leaves validate_solution as an exception (checked under            *)
(* SpecValidate).                                                          *)
(***************************************************************************)
\* the call of validate_solution has ended with an exception
ValidateRaised(p) == v[p].pc = "raised"

\* C20: validate_solution raises to its caller only for the exhaustion of a
\* host resource (the temporary file cannot be created or written: OSError);
\* whatever the submission is, be it unsafe, unparsable, beyond what the
\* parser or the file's encoding can handle, crashing, slow or wrong, the
\* call ends with a report.
C20_OnlyHostErrorsRaise ==
    \A p \in Procs : ValidateRaised(p) => ret[p] = Raised("OSError")

(***************************************************************************)
(* One child per test case (checked under SpecWrapper).                    *)
(***************************************************************************)
\* thread p's call of validate_solution is under way or has ended, on a
\* source the screening lets through
ValidatesSafe(p) == v[p].pc # "idle" /\ ~ScreenRejects(v[p].code)

\* C21: in one call of validate_solution on a source that passes the
\* screening, execute is entered once per test case (at the loop head i - 1
\* invocations have been made, during the run of case i exactly i, in the
\* report as many as cases were run); a child is started only by the
\* invocation of the case being run, only once in it, and runs the target of
\* that case; and no child is left when the loop turns to the next case or
\* the report is built.
C21_OneChildPerCase ==
    /\ [](\A p \in Procs :
            ValidatesSafe(p) =>
              /\ v[p].pc = "loop" => calls[p] = v[p].i - 1 /\ p \notin children
              /\ v[p].pc = "call" =>
                   /\ calls[p] = v[p].i
                   /\ call[p].tc = v[p].cases[v[p].i]
                   /\ p \in children => pc[p] = "running" /\ captured[p] = NoCapture
              /\ v[p].pc = "done" =>
                   /\ calls[p] = Min(Len(v[p].cases), Len(v[p].expected))
                   /\ Len(CaseLines(p)) = calls[p]
                   /\ p \notin children)
    /\ [][\A p \in Procs :
            ValidatesSafe(p) /\ p \notin children /\ p \in children' =>
                /\ v[p].pc = "call"
                /\ pc[p] = "spawn"
                /\ captured[p] = NoCapture
                /\ calls'[p] = calls[p]
                /\ v'[p] = v[p]]_vars

\* C21 witness: the child of the second of two different test cases runs,
\* after the child of the first has ended and its case has been judged.
C21_Witness ==
    /\ ValidatesSafe(1)
    /\ v[1].pc = "call"
    /\ v[1].i = 2
    /\ v[1].cases[1] # v[1].cases[2]
    /\ Len(v[1].feedback) = 1
    /\ 1 \in children
    /\ calls[1] = 2
    /\ files = {<<1, 2>>}

(***************************************************************************)
(* SpecCodec: validate_solution on a target that returns its first         *)
(* argument, for one test case whose first argument is a value of          *)
(* CodecValues, against that value or another one as the expected output.  *)
(***************************************************************************)
\* the longest list among the values
MaxItems == 2

CodecInts == { 0 - 12, 0 - 1, 0, 7, 10, 105 }
CodecStrings ==
    { "", "ab", "it's", "say \"hi\"", "both ' and \"", "a\\b", "l\nb", "\t",
      "5", "None", "[1, 2]", " x " }
CodecItems == { 0 - 1, 0, 12 }
CodecLists ==
    UNION { [1..n -> { [int |-> k] : k \in CodecItems }] : n \in 0..MaxItems }
CodecValues ==
    { [int |-> k] : k \in CodecInts } \cup { [str |-> t] : t \in CodecStrings }
        \cup { [list |-> l] : l \in CodecLists }
\* expected outputs that are not the value returned
CodecOthers == { [int |-> 5], [str |-> "5"], [list |-> <<[int |-> 5]>>] }

CodecSource == <<"def solution(a, b):\n    return a">>
CodecCase(val) == TestCase("solution", <<val, [int |-> 3]>>)

InitCodec == InitExec /\ cap = 1

NextCodec ==
    \/ \E val \in CodecValues : \E exp \in {val} \cup CodecOthers :
          ValidateCall(1, CodecSource, <<CodecCase(val)>>, <<exp>>)
    \/ ValidateLoop(1)
    \/ ValidateResume(1)
    \/ Acquire(1)
    \/ CreateTemp(1)
    \/ WriteWrapper(1)
    \/ Spawn(1)
    \/ ChildRun(1)
    \/ KilledAtTimeout(1)
    \/ Unlink(1)
    \/ Release(1)

SpecCodec == InitCodec /\ [][NextCodec]_vars

\* validate_solution has returned the report of a single case whose child
\* ran the program to its end
ReportedRun(p) == v[p].pc = "done" /\ Len(v[p].cases) = 1 /\ RanToEnd(p)

\* C22: for every integer, string and list of integers val of CodecValues
\* that the target returns, execute returns Success with the text repr(val),
\* decoding that text gives a value equal to val, and the case passes against
\* the expected output val (and is reported as a mismatch against another
\* value).
C22_CodecRoundTrip ==
    \A p \in Procs :
        ReportedRun(p) =>
            LET val == v[p].cases[1].args[1]
                exp == v[p].expected[1]
            IN /\ ret[p] = Outcome(TRUE, Repr(val), "")
               /\ DecodeResult(ret[p].result) = val
               /\ exp = val => v[p].all_passed /\ CaseLines(p) = <<PassLine(1)>>
               /\ exp # val => ~v[p].all_passed /\ CaseLines(p) = <<MismatchLine(1, exp, val)>>

\* C22 witness: the target returned a string that holds both kinds of quote,
\* and the case passed against that string.
C22_Witness ==
    /\ ReportedRun(1)
    /\ v[1].cases[1].args[1] = [str |-> "both ' and \""]
    /\ ret[1].result = "'both \\' and \"'"
    /\ v[1].expected[1] = [str |-> "both ' and \""]
    /\ v[1].all_passed

(***************************************************************************)
(* SpecRepeat: two threads, each calling execute up to MaxRuns times with  *)
(* one passing submission and one test case, on a semaphore of any         *)
(* capacity 1..MaxCapacity.                                                *)
(***************************************************************************)
RepeatProcs == {1, 2}
\* the submissions with their test cases, and the text each returns
RepeatRuns ==
    { [code |-> <<"def solution(a, b):\n    return a + b">>, tc |-> TcAdd],
      [code |-> <<"def solution(a, b):\n    return a">>, tc |-> TcText] }
RepeatResult(run) == IF run.tc = TcAdd THEN "5" ELSE "'ab'"

NextRepeat ==
    \E p \in RepeatProcs :
        \/ \E run \in RepeatRuns : ExecuteCall(p, run.code, run.tc)
        \/ ExecuteAgain(p)
        \/ Acquire(p)
        \/ CreateTemp(p)
        \/ WriteWrapper(p)
        \/ Spawn(p)
        \/ ChildRun(p)
        \/ KilledAtTimeout(p)
        \/ Unlink(p)
        \/ Release(p)

SpecRepeat == Init /\ [][NextRepeat]_vars

\* C23: every run of a passing submission against its test case whose child
\* was started and not killed returns Success with the same text, whose
\* decoded value is the same, whichever of the thread's runs it is and
\* whatever the other thread's runs are doing or have left behind: the
\* outcome is fixed by the code and the test case alone.
C23_RunsAreRepeatable ==
    \A p \in Procs :
        RanToEnd(p) =>
            /\ ret[p] = Outcome(TRUE, RepeatResult(call[p]), "")
            /\ DecodeResult(ret[p].result) =
                  (IF call[p].tc = TcAdd THEN [int |-> 5] ELSE [str |-> "ab"])
            /\ captured[p].stdout = RunWrapper(call[p].code, call[p].tc).stdout

\* C23 witness: thread 1 has returned Success(5) from its second run of the
\* submission while thread 2, on the same submission, has its child running,
\* and a file is left from an earlier run that failed to write its program.
C23_Witness ==
    /\ calls[1] = 2
    /\ pc[1] = "returned"
    /\ RanToEnd(1)
    /\ ret[1] = Outcome(TRUE, "5", "")
    /\ call[2] = call[1]
    /\ 2 \in children
    /\ <<1, 1>> \in files

(***************************************************************************)
(* A test case without target (checked under SpecWrapper).                 *)
(***************************************************************************)
\* the test case names no target: the name is empty or None
NoTarget(tc) == tc.function \in {"", None}
\* the submission compiles and runs at module level without raising
RunsClean(src) == Parse(src).status = "ok" /\ RunUser(src, <<>>).how = "end"

Fairness == \A p \in Procs : WF_vars(ExecStep(p, ConcStdout, {""}))

SpecLive == Init /\ [][Next]_vars /\ Fairness

\* thread p waits for a unit of the semaphore
Waiting(p) == pc[p] = "acquire"
\* thread p holds a unit and its next step does not depend on the semaphore
Progressing(p) ==
    p \in holders /\ pc[p] \in {"mktemp", "write", "spawn", "running", "finally", "release"}

\* C25: with each thread calling execute at most once and any capacity of 1
\* or more: a thread that waits for a unit holds none; the free units and the
\* holders add up to the capacity, so whenever a thread waits and no unit is
\* free some holder is on its way to the release; a waiting thread stops
\* waiting only by getting a unit; and from some point on no call is in
\* progress any more: every call that was made has ended (the calls being
\* finitely many, this says that each of them ends, a waiting one having got
\* its unit first).
C25_EveryCallEnds ==
    /\ [](\A p \in Procs : Waiting(p) => p \notin holders)
    /\ [](sem + Cardinality(holders) = cap /\ sem >= 0)
    /\ []((sem = 0 /\ \E p \in Procs : Waiting(p)) => \E q \in Procs : Progressing(q))
    /\ [][\A p \in Procs : Waiting(p) /\ ~Waiting(p)' => p \in holders']_vars
    /\ <>[](\A p \in Procs : ~Active(p))

\* C25 witness: on a semaphore of capacity 1 the first holder has finished
\* and a thread that had to wait holds the unit, while a third still waits.
C25_Witness ==
    /\ cap = 1
    /\ \E p, q, r \in Procs :
          /\ Finished(p) /\ calls[p] = 1 /\ captured[p] # NoCapture
          /\ q \in holders /\ q \in children
          /\ Waiting(r)

(***************************************************************************)
(* Where a Success comes from (checked under SpecWrapper).                 *)
(***************************************************************************)
\* the driver of the program resolves the target, builds the arguments and
\* calls the target, and the call returns a value whose repr is text
DriverReturns(src, tc, text) ==
    /\ ReachesDriver(src, tc)
    /\ TestExpr(tc) \in DOMAIN GlobalsOf(src)
    /\ LET globals == GlobalsOf(src)
           args == PassedArgs(tc, globals)
           kwargs == PassedKwargs(tc, globals)
       IN /\ ~IsExc(args)
          /\ ~IsExc(kwargs)
          /\ DOMAIN kwargs.dict = {}
          /\ LET val == CallTarget(globals[TestExpr(tc)], args.list, globals).val
             IN /\ "exits" \notin DOMAIN val
                /\ ~IsExc(val)
                /\ ~ReprRaises(val)
                /\ Repr(val) = text

\* C26: an execute call with a target returns Success(r) only if the driver
\* of the program resolved the target, called it with the arguments of the
\* test case, and the call returned a value whose repr is r.
C26_SuccessOnlyFromTheDriver ==
    \A p \in Procs :
        /\ pc[p] = "returned"
        /\ TestExpr(call[p].tc) # ""
        /\ ret[p].ok
        => DriverReturns(call[p].code, call[p].tc, ret[p].result)

(***************************************************************************)
(* Lists of different lengths (checked under SpecValidate).                *)
(***************************************************************************)
\* C27: the report for N >= 1 test cases and M expected outputs has one line
\* for each of the first min(N, M) cases and execute was called that many
\* times; when M < N, allPassed is false and the summary gives a pass count
\* below N out of N, even if every case that ran passed; when N <= M the
\* expected outputs beyond the N-th play no part: allPassed is true exactly
\* when all N cases passed.
C27_ZipTruncates ==
    \A p \in Procs :
        v[p].pc = "done" /\ v[p].cases # <<>> =>
            LET N == Len(v[p].cases)
                M == Len(v[p].expected)
                lines == CaseLines(p)
            IN /\ Len(lines) = Min(N, M)
               /\ calls[p] = Min(N, M)
               /\ \A k \in DOMAIN lines : IsLineOfTest(lines[k], k)
               /\ v[p].passed = Cardinality({k \in DOMAIN lines : lines[k].kind = "pass"})
               /\ M < N =>
                    /\ ~v[p].all_passed
                    /\ v[p].passed < N
                    /\ v[p].feedback[1] = [kind |-> "some", passed |-> v[p].passed, total |-> N]
               /\ N <= M =>
                    (v[p].all_passed <=> \A k \in 1..N : lines[k] = PassLine(k))

\* C27 witness: of two test cases only the first had an expected output; it
\* ran and passed, the second never ran, and the report says 1/2 passed.
C27_Witness ==
    /\ v[1].pc = "done"
    /\ Len(v[1].cases) = 2
    /\ Len(v[1].expected) = 1
    /\ CaseLines(1) = <<PassLine(1)>>
    /\ calls[1] = 1
    /\ ~v[1].all_passed
    /\ v[1].feedback[1] = [kind |-> "some", passed |-> 1, total |-> 2]

(***************************************************************************)
(* The quest campaign  (pymaster_quests.py).                               *)
(***************************************************************************)
\* ZONES (lines 15-105): the zones in the order of the dict, and the ids of
\* the steps of each zone in the order of its list
ZoneOrder == <<"green_valley", "azure_city", "scarlet_tower">>
ZONES ==
    [green_valley |-> <<"gv_step1", "gv_step2", "gv_step3">>,
     azure_city |-> <<"ac_step1", "ac_step2", "ac_step3">>,
     scarlet_tower |-> <<"st_step1", "st_step2", "st_step3">>]

\* the messages of the campaign's screens
MapShown == "map"
ZoneDetailsShown == "zone details"
ZoneLockedShown == "This zone is locked. Complete previous zones to unlock it."
StepDetailsShown == "step details"
StepLockedShown == "This step is locked. Complete the previous step first."
InvalidZoneShown == "Invalid zone selected."
InvalidStepShown == "Invalid step selected."
AlreadyShown == "This step is already marked as completed."
MarkedShown == "Step marked as completed!"
CancelledShown == "cancelled"

RECURSIVE Collect(_, _)
\* lines 138-144: the dict built from the fetched rows
Collect(fetched, progress) ==
    IF fetched = <<>> THEN progress
    ELSE LET zone_id == Head(fetched)[1]
             step_id == Head(fetched)[2]
             known == IF zone_id \in DOMAIN progress THEN progress
                      ELSE (zone_id :> <<>>) @@ progress
         IN Collect(Tail(fetched), [known EXCEPT ![zone_id] = Append(@, step_id)])

\* lines 126-146
get_user_progress(table) == Collect(table, <<>>)

\* lines 148-158: INSERT OR REPLACE on the key (user_id, zone_id, step_id)
mark_step_completed(table, zone_id, step_id) ==
    Append(SelectSeq(table, LAMBDA row : row # <<zone_id, step_id>>), <<zone_id, step_id>>)

\* lines 160-162
is_step_completed(progress, zone_id, step_id) ==
    /\ zone_id \in DOMAIN progress
    /\ \E i \in DOMAIN progress[zone_id] : progress[zone_id][i] = step_id

\* lines 170-173
unlock_requirements ==
    [azure_city |-> <<"green_valley", 1>>, scarlet_tower |-> <<"azure_city", 1>>]

\* lines 164-180
is_zone_unlocked(progress, zone_id) ==
    IF zone_id = "green_valley" THEN TRUE
    ELSE IF zone_id \notin DOMAIN unlock_requirements THEN FALSE
    ELSE LET required_zone == unlock_requirements[zone_id][1]
             required_steps == unlock_requirements[zone_id][2]
         IN /\ required_zone \in DOMAIN progress
            /\ Len(progress[required_zone]) >= required_steps

\* a marking that does not look at the step before
MarkIgnoringOrder(zone_id, step_index, progress, answer) ==
    IF zone_id \notin DOMAIN ZONES
    THEN [progress |-> progress, shown |-> InvalidZoneShown, row |-> None]
    ELSE LET steps == ZONES[zone_id]
         IN IF step_index < 0 \/ step_index >= Len(steps)
            THEN [progress |-> progress, shown |-> InvalidStepShown, row |-> None]
            ELSE LET step == steps[step_index + 1]
                 IN IF is_step_completed(progress, zone_id, step)
                    THEN [progress |-> progress, shown |-> AlreadyShown, row |-> None]
                    ELSE IF Lower(answer) = "y"
                    THEN LET known == IF zone_id \in DOMAIN progress THEN progress
                                      ELSE (zone_id :> <<>>) @@ progress
                         IN [progress |-> [known EXCEPT ![zone_id] = Append(@, step)],
                             shown |-> MarkedShown, row |-> <<zone_id, step>>]
                    ELSE [progress |-> progress, shown |-> CancelledShown, row |-> None]

\* lines 318-357: the progress it returns, the message it prints, and the row
\* it writes to the table; step_index counts from 0, answer is what the user
\* enters at the confirmation
mark_step_as_completed_ui(zone_id, step_index, progress, answer) ==
    IF zone_id \notin DOMAIN ZONES
    THEN [progress |-> progress, shown |-> InvalidZoneShown, row |-> None]
    ELSE LET steps == ZONES[zone_id]
         IN IF step_index < 0 \/ step_index >= Len(steps)
            THEN [progress |-> progress, shown |-> InvalidStepShown, row |-> None]
            ELSE LET step == steps[step_index + 1]
                 IN IF is_step_completed(progress, zone_id, step)
                    THEN [progress |-> progress, shown |-> AlreadyShown, row |-> None]
                    ELSE IF step_index > 0 /\ ~is_step_completed(progress, zone_id, steps[step_index])
                    THEN [progress |-> progress, shown |-> StepLockedShown, row |-> None]
                    ELSE IF Lower(answer) = "y"
                    THEN LET known == IF zone_id \in DOMAIN progress THEN progress
                                      ELSE (zone_id :> <<>>) @@ progress
                         IN [progress |-> [known EXCEPT ![zone_id] = Append(@, step)],
                             shown |-> MarkedShown, row |-> <<zone_id, step>>]
                    ELSE [progress |-> progress, shown |-> CancelledShown, row |-> None]

\* a menu that offers every zone
AllZoneChoices(progress) == ZoneOrder

\* lines 409, 441: the zones offered for steps, the unlocked ones in order
zone_choices(progress) == SelectSeq(ZoneOrder, LAMBDA zone_id : is_zone_unlocked(progress, zone_id))

\* what the user may enter at the confirmation (the default is "n")
Answers == {"y", "Y", "n", "yes"}

\* lines 359-366: the campaign starts and reads the progress from the table
EnterCampaign ==
    /\ campaign.pc = "out"
    /\ campaign' = [pc |-> "menu", progress |-> get_user_progress(rows), shown |-> MapShown]
    /\ UNCHANGED <<cap, sem, holders, files, children, pc, call, calls, tmp, ret, captured, v,
                   rows, arcade>>

\* lines 381-406: option 1, the details of one of all zones
ViewZoneDetails(zone_idx) ==
    /\ campaign.pc = "menu"
    /\ zone_idx \in DOMAIN ZoneOrder
    /\ campaign' = [campaign EXCEPT !.shown =
                       IF is_zone_unlocked(campaign.progress, ZoneOrder[zone_idx])
                       THEN ZoneDetailsShown ELSE ZoneLockedShown]
    /\ UNCHANGED <<cap, sem, holders, files, children, pc, call, calls, tmp, ret, captured, v,
                   rows, arcade>>

\* lines 263-277: show_step_details
show_step_details(zone_id, step_index, progress) ==
    IF zone_id \notin DOMAIN ZONES THEN InvalidZoneShown
    ELSE IF step_index < 0 \/ step_index >= Len(ZONES[zone_id]) THEN InvalidStepShown
    ELSE IF step_index > 0 /\ ~is_step_completed(progress, zone_id, ZONES[zone_id][step_index])
    THEN StepLockedShown
    ELSE StepDetailsShown

\* lines 407-436: option 2, the details of a step of an unlocked zone
ViewStepDetails(zone_idx, step_idx) ==
    /\ campaign.pc = "menu"
    /\ zone_idx \in DOMAIN zone_choices(campaign.progress)
    /\ LET selected_zone == zone_choices(campaign.progress)[zone_idx]
       IN /\ step_idx \in DOMAIN ZONES[selected_zone]
          /\ campaign' = [campaign EXCEPT !.shown =
                             show_step_details(selected_zone, step_idx - 1, campaign.progress)]
    /\ UNCHANGED <<cap, sem, holders, files, children, pc, call, calls, tmp, ret, captured, v,
                   rows, arcade>>

\* lines 438-473: option 3, a step of an unlocked zone is marked; when the
\* write to the table fails, sqlite3's exception leaves the campaign
MarkStep(zone_idx, step_idx, answer, written) ==
    /\ campaign.pc = "menu"
    /\ zone_idx \in DOMAIN zone_choices(campaign.progress)
    /\ LET selected_zone == zone_choices(campaign.progress)[zone_idx]
       IN /\ step_idx \in DOMAIN ZONES[selected_zone]
          /\ LET done == mark_step_as_completed_ui(selected_zone, step_idx - 1,
                                                   campaign.progress, answer)
             IN IF done.row = None
                THEN /\ campaign' = [campaign EXCEPT !.shown = done.shown]
                     /\ rows' = rows
                ELSE IF written
                THEN /\ campaign' = [campaign EXCEPT !.progress = done.progress,
                                                     !.shown = done.shown]
                     /\ rows' = mark_step_completed(rows, done.row[1], done.row[2])
                ELSE /\ campaign' = NoCampaign
                     /\ rows' = rows
    /\ UNCHANGED <<cap, sem, holders, files, children, pc, call, calls, tmp, ret, captured, v,
                   arcade>>

\* lines 475-476: option 4, back to the main menu
LeaveCampaign ==
    /\ campaign.pc = "menu"
    /\ campaign' = NoCampaign
    /\ UNCHANGED <<cap, sem, holders, files, children, pc, call, calls, tmp, ret, captured, v,
                   rows, arcade>>

(***************************************************************************)
(* SpecQuests: one user in the campaign, any sequence of menu options,     *)
(* leaving and coming back included.                                       *)
(***************************************************************************)
NextQuests ==
    \/ EnterCampaign
    \/ \E zone_idx \in DOMAIN ZoneOrder : ViewZoneDetails(zone_idx)
    \/ \E zone_idx \in DOMAIN ZoneOrder, step_idx \in 1..3 : ViewStepDetails(zone_idx, step_idx)
    \/ \E zone_idx \in DOMAIN ZoneOrder, step_idx \in 1..3, answer \in Answers, written \in BOOLEAN :
          MarkStep(zone_idx, step_idx, answer, written)
    \/ LeaveCampaign

\* the executor is constructed with its default of one slot; the campaign is
\* not entered yet
InitQuests == InitExec /\ cap = 1

SpecQuests == InitQuests /\ [][NextQuests]_vars

\* the campaign is at its menu
InCampaign == campaign.pc = "menu"
\* the completed steps of the zone, as the progress has them
CompletedIn(progress, zone_id) ==
    IF zone_id \in DOMAIN progress THEN progress[zone_id] ELSE <<>>
\* the first k steps of the zone
FirstSteps(zone_id, k) == SubSeq(ZONES[zone_id], 1, k)
\* the zones and step indexes (from 0) that are none of the campaign's
BadZones == {"nowhere", ""}
BadIndexes == {0 - 1, 3, 4}

\* C28: the completed steps of every zone are the first k steps of the zone
\* in their order, for some k (so none twice), and the table holds the same
\* steps; a step of the menu changes the progress only by appending one step
\* that was not completed and is the first of its zone or comes after a
\* completed one, and then says so; a marking that is refused (already
\* completed, locked), cancelled, or invalid (no such zone, no such step)
\* returns the progress as it was.
C28_CompletedStepsArePrefix ==
    /\ [](\A i \in DOMAIN ZoneOrder :
            \E k \in 0..Len(ZONES[ZoneOrder[i]]) :
                CompletedIn(campaign.progress, ZoneOrder[i]) = FirstSteps(ZoneOrder[i], k))
    /\ [](InCampaign => campaign.progress = get_user_progress(rows))
    /\ [](\A zone_id \in BadZones \cup DOMAIN ZONES, step_index \in BadIndexes \cup 0..2,
             answer \in Answers :
            LET done == mark_step_as_completed_ui(zone_id, step_index, campaign.progress, answer)
            IN (zone_id \in BadZones \/ step_index \in BadIndexes \/ Lower(answer) # "y")
                   => done.progress = campaign.progress /\ done.row = None)
    /\ [][InCampaign /\ campaign'.pc = "menu" =>
            \/ /\ campaign'.progress = campaign.progress
               /\ rows' = rows
               /\ campaign'.shown # MarkedShown
            \/ /\ campaign'.shown = MarkedShown
               /\ \E i \in DOMAIN ZoneOrder :
                    LET zone_id == ZoneOrder[i]
                        k == Len(CompletedIn(campaign.progress, zone_id))
                    IN /\ k < Len(ZONES[zone_id])
                       /\ ~is_step_completed(campaign.progress, zone_id, ZONES[zone_id][k + 1])
                       /\ k = 0 \/ is_step_completed(campaign.progress, zone_id, ZONES[zone_id][k])
                       /\ CompletedIn(campaign'.progress, zone_id) = FirstSteps(zone_id, k + 1)
                       /\ \A j \in DOMAIN ZoneOrder \ {i} :
                            CompletedIn(campaign'.progress, ZoneOrder[j]) =
                            CompletedIn(campaign.progress, ZoneOrder[j])]_vars

\* C28 witness: two steps of green_valley and one of azure_city are
\* completed, and the marking of a step that is already completed has just
\* been refused.
C28_Witness ==
    /\ InCampaign
    /\ CompletedIn(campaign.progress, "green_valley") = <<"gv_step1", "gv_step2">>
    /\ CompletedIn(campaign.progress, "azure_city") = <<"ac_step1">>
    /\ campaign.shown = AlreadyShown

\* the number of completed steps of the zone
CompletedCount(progress, zone_id) == Len(CompletedIn(progress, zone_id))

\* C29: green_valley is unlocked whatever the progress; azure_city is
\* unlocked exactly when green_valley has a completed step and scarlet_tower
\* exactly when azure_city has one; the menu marks steps only in zones that
\* are unlocked, so that a completed step in scarlet_tower implies one in
\* azure_city, which implies one in green_valley; and no step of the menu
\* locks a zone that was unlocked, nor takes a row from the table the
\* progress is read from when the campaign is entered again.
C29_ZonesUnlockInOrder ==
    /\ [](/\ is_zone_unlocked(campaign.progress, "green_valley")
          /\ is_zone_unlocked(campaign.progress, "azure_city")
                <=> CompletedCount(campaign.progress, "green_valley") >= 1
          /\ is_zone_unlocked(campaign.progress, "scarlet_tower")
                <=> CompletedCount(campaign.progress, "azure_city") >= 1
          /\ ~is_zone_unlocked(campaign.progress, "nowhere"))
    /\ [](/\ CompletedCount(campaign.progress, "scarlet_tower") >= 1
                => CompletedCount(campaign.progress, "azure_city") >= 1
          /\ CompletedCount(campaign.progress, "azure_city") >= 1
                => CompletedCount(campaign.progress, "green_valley") >= 1)
    /\ [](InCampaign => campaign.progress = get_user_progress(rows))
    /\ [][/\ InCampaign /\ campaign'.pc = "menu" =>
               \A i \in DOMAIN ZoneOrder :
                   /\ is_zone_unlocked(campaign.progress, ZoneOrder[i])
                         => is_zone_unlocked(campaign'.progress, ZoneOrder[i])
                   /\ CompletedCount(campaign'.progress, ZoneOrder[i])
                         > CompletedCount(campaign.progress, ZoneOrder[i])
                         => is_zone_unlocked(campaign.progress, ZoneOrder[i])
          /\ \A zone_id \in DOMAIN ZONES :
               is_zone_unlocked(get_user_progress(rows), zone_id)
                   => is_zone_unlocked(get_user_progress(rows'), zone_id)]_vars

\* C29 witness: all three zones are unlocked, scarlet_tower by the one
\* completed step of azure_city, and a step of scarlet_tower is completed.
C29_Witness ==
    /\ InCampaign
    /\ CompletedCount(campaign.progress, "green_valley") = 3
    /\ CompletedCount(campaign.progress, "azure_city") = 1
    /\ CompletedCount(campaign.progress, "scarlet_tower") = 1
    /\ is_zone_unlocked(campaign.progress, "scarlet_tower")
    /\ campaign.shown = MarkedShown

(***************************************************************************)
(* Arcade mode  (pymaster_arcade.py, run_arcade_mode, lines 222-334).      *)
(* The locals of run_arcade_mode are the fields of arcade.  Ctrl+C raises  *)
(* KeyboardInterrupt in the main thread wherever it is, so the statements  *)
(* that update the counters are steps of their own, and the interrupt can  *)
(* come between any two of them.                                           *)
(***************************************************************************)
\* the times a challenge may take, in seconds
ExecTimes == {0, 1}

\* where run_arcade_mode is inside its try block (lines 257-320)
InRound ==
    { "loop", "challenge", "s291", "s292", "s293", "s295", "s296", "s297", "s298",
      "s301", "save", "pause" }

\* lines 222-254: the duration is chosen and the counters are set to zero
StartArcade ==
    /\ arcade.pc = "out"
    /\ arcade' = [pc |-> "loop", attempted |-> 0, solved |-> 0, current_streak |-> 0,
                  best_streak |-> 0, total_time |-> 0, challenge_times |-> <<>>,
                  rounds |-> 0, passed |-> FALSE, exec_time |-> 0]
    /\ UNCHANGED <<cap, sem, holders, files, children, pc, call, calls, tmp, ret, captured, v,
                   campaign, rows>>

\* the step of run_arcade_mode from one place to the next
ArcadeStep(from, next) ==
    /\ arcade.pc = from
    /\ arcade' = next
    /\ UNCHANGED <<cap, sem, holders, files, children, pc, call, calls, tmp, ret, captured, v,
                   campaign, rows>>

\* lines 258-285: time is left, and a round begins
BeginRound ==
    /\ arcade.pc = "loop"
    /\ arcade.rounds < MaxRounds
    /\ ArcadeStep("loop", [arcade EXCEPT !.pc = "challenge"])

\* lines 258-261: the duration is over
TimeIsUp == ArcadeStep("loop", [arcade EXCEPT !.pc = "summary"])

\* line 288: run_arcade_challenge returns: the challenge was skipped (False,
\* 0), failed on its syntax or its tests, or passed; rounds counts the
\* challenges that returned
ChallengeReturns(passed, exec_time) ==
    ArcadeStep("challenge", [arcade EXCEPT !.pc = "s291", !.passed = passed,
                                           !.exec_time = exec_time, !.rounds = @ + 1])

\* line 291
CountAttempt == ArcadeStep("s291", [arcade EXCEPT !.pc = "s292", !.attempted = @ + 1])
\* line 292
AddTime == ArcadeStep("s292", [arcade EXCEPT !.pc = "s293", !.total_time = @ + arcade.exec_time])
\* line 293
RecordTime ==
    ArcadeStep("s293", [arcade EXCEPT !.pc = "s295",
                                      !.challenge_times = Append(@, arcade.exec_time)])
\* line 295
TestPassed ==
    ArcadeStep("s295", [arcade EXCEPT !.pc = IF arcade.passed THEN "s296" ELSE "s301"])
\* line 296
CountSolved == ArcadeStep("s296", [arcade EXCEPT !.pc = "s297", !.solved = @ + 1])
\* line 297
ExtendStreak == ArcadeStep("s297", [arcade EXCEPT !.pc = "s298", !.current_streak = @ + 1])
\* lines 298-299
RaiseBest ==
    ArcadeStep("s298", [arcade EXCEPT !.pc = "save",
                           !.best_streak = IF @ >= arcade.current_streak THEN @
                                           ELSE arcade.current_streak])
\* lines 300-302
ResetStreak == ArcadeStep("s301", [arcade EXCEPT !.pc = "save", !.current_streak = 0])

\* lines 304-315: the result is saved; an exception of the database leaves
\* run_arcade_mode
SaveResult(saved) ==
    /\ arcade.pc = "save"
    /\ arcade' = IF saved THEN [arcade EXCEPT !.pc = "pause"] ELSE NoArcade
    /\ UNCHANGED <<cap, sem, holders, files, children, pc, call, calls, tmp, ret, captured, v,
                   campaign, rows>>

\* lines 317-320: the pause before the next round
Pause == ArcadeStep("pause", [arcade EXCEPT !.pc = "loop"])

\* lines 322-323: KeyboardInterrupt, raised anywhere inside the try block
Interrupt ==
    /\ arcade.pc \in InRound
    /\ arcade' = [arcade EXCEPT !.pc = "summary"]
    /\ UNCHANGED <<cap, sem, holders, files, children, pc, call, calls, tmp, ret, captured, v,
                   campaign, rows>>

\* lines 325-334: the summary is shown and run_arcade_mode returns
ShowSummary ==
    /\ arcade.pc = "summary"
    /\ arcade' = NoArcade
    /\ UNCHANGED <<cap, sem, holders, files, children, pc, call, calls, tmp, ret, captured, v,
                   campaign, rows>>

(***************************************************************************)
(* SpecArcade: one player, up to MaxRounds rounds per sprint.              *)
(***************************************************************************)
NextArcade ==
    \/ StartArcade
    \/ BeginRound
    \/ TimeIsUp
    \/ \E passed \in BOOLEAN, exec_time \in ExecTimes : ChallengeReturns(passed, exec_time)
    \/ CountAttempt
    \/ AddTime
    \/ RecordTime
    \/ TestPassed
    \/ CountSolved
    \/ ExtendStreak
    \/ RaiseBest
    \/ ResetStreak
    \/ \E saved \in BOOLEAN : SaveResult(saved)
    \/ Pause
    \/ Interrupt
    \/ ShowSummary

\* the executor is constructed with its default of one slot; arcade mode is
\* not entered yet
InitArcade == InitExec /\ cap = 1

SpecArcade == InitArcade /\ [][NextArcade]_vars

\* the rounds so far are over: the loop is at its head, or the summary is
\* being built
BetweenRounds == arcade.pc \in {"loop", "summary"}

\* C30: whenever the rounds so far are over, by the end of a round or by an
\* interrupt, 0 <= current_streak <= best_streak <= solved <= attempted, and
\* attempted is the number of challenges that returned and the number of
\* recorded challenge times; best_streak never decreases during a sprint; a
\* failed round sets current_streak to 0 and leaves solved and best_streak
\* as they are.
C30_ArcadeCounters ==
    /\ [](BetweenRounds =>
            /\ 0 <= arcade.current_streak
            /\ arcade.current_streak <= arcade.best_streak
            /\ arcade.best_streak <= arcade.solved
            /\ arcade.solved <= arcade.attempted
            /\ arcade.attempted = arcade.rounds
            /\ arcade.attempted = Len(arcade.challenge_times))
    /\ [][arcade.pc # "out" /\ arcade'.pc # "out" =>
            arcade'.best_streak >= arcade.best_streak]_vars
    /\ [][arcade.pc = "s301" /\ arcade'.pc # "summary" =>
            /\ arcade'.current_streak = 0
            /\ arcade'.solved = arcade.solved
            /\ arcade'.best_streak = arcade.best_streak]_vars

====
